---- MODULE Spec2Model ----
(***************************************************************************)
(* A model of the OData-to-MCP bridge: the OData HTTP client with its      *)
(* CSRF handshake (internal/client/client.go), the line-delimited JSON-RPC *)
(* server (package mcp) and the tool handlers of the bridge                *)
(* (internal/bridge/bridge.go).                                            *)
(*                                                                         *)
(* Text is modelled as a sequence of word tokens (punctuation is a token   *)
(* of its own); strings.Contains is the contiguous-subsequence test.       *)
(***************************************************************************)
EXTENDS Integers, Sequences, FiniteSets, TLC

VARIABLES
    \* ---- ODataClient (client.go:21-30) ----
    csrfToken,       \* c.csrfToken, "" when the client holds none
    sessionCookies,  \* c.sessionCookies, in the order received
    \* ---- the client operation in progress ----
    cpc,             \* which HTTP call is in flight: idle/prefetch/send/refetch/done
    op,              \* the public operation being executed and its arguments
    req,             \* the *http.Request of the original request
    bodyBytes,       \* the buffered body kept by doRequest
    isRetry,         \* the isRetry parameter of the active doRequestWithRetry
    wire,            \* requests issued by this operation, in order
    resps,           \* the responses that came back, in order
    result,          \* what the operation returned
    heldAtStart,     \* c.csrfToken when the operation was called
    nOps,            \* operations started so far
    \* ---- mcp.Server (bridge.go:1949-1961) ----
    spc,             \* position of Server.Run: scan/handle/call/eof
    line,            \* the line being handled
    nLines,          \* lines read so far
    readLog,         \* the lines read, in order
    output,          \* frames written to s.output, in order
    initialized,     \* s.initialized
    dispatched,      \* the lines handed to handleMessage, in order
    cancelled,       \* s.ctx is done (Stop was called)
    \* ---- the bridge and the server's tool table ----
    bridge,          \* ODataMCPBridge: construction phase, flags, metadata
    sTools,          \* s.tools: name -> tool definition
    sToolOrder,      \* s.toolOrder
    sHandlers,       \* s.handlers: name -> handler closure
    stdout,          \* text written to os.Stdout past the frame writer
    listed,          \* tools/list: the copy a request in progress holds, the last response
    regCalls,        \* the AddTool and RemoveTool calls made after construction
    \* ---- error classification on its own ----
    cls,             \* an (HTTP status, body, tool) input and its classification
    \* ---- response parsing and value conversion on their own ----
    calc,            \* a function of the client or of utils, its input and its output
    \* ---- ODataMCPBridge.Run and Stop on their own ----
    life             \* b.running, the stop channel, the server loops in progress

clientVars == <<csrfToken, sessionCookies, cpc, op, req, bodyBytes, isRetry,
                wire, resps, result, heldAtStart, nOps>>
serverVars == <<spc, line, nLines, readLog, output, initialized, dispatched, cancelled>>
toolVars == <<bridge, sTools, sToolOrder, sHandlers, stdout, listed, regCalls>>
vars == <<clientVars, serverVars, cls, calc, life, toolVars>>

----------------------------------------------------------------------------
(* Bounds *)

\* client operations per behaviour of SpecClient
MaxOps == 2
\* stdin lines per behaviour of Spec
MaxLines == 2
\* AddTool and RemoveTool calls per behaviour of SpecTools
MaxRegs == 2
\* the longest array of entities in a response body, and the largest
\* __count a body carries
MaxItems == 2
MaxCount == 9
\* the most digits of a legacy date
MaxDigits == 5
\* the most calls of Run and Stop, and returns of Run, on one bridge
MaxCalls == 5
\* the most digits of a numeric key value, less one
MaxKeyDigits == 7

----------------------------------------------------------------------------
(* Text *)

\* strings.Contains on token sequences
Contains(s, p) ==
    \E i \in 0..(Len(s) - Len(p)) : SubSeq(s, i + 1, i + Len(p)) = p

\* strings.ToLower, one token at a time
LowerTok(t) ==
    CASE t = "CSRF" -> "csrf"
      [] t = "Csrf" -> "csrf"
      [] t = "Required" -> "required"
      [] t = "REQUIRED" -> "required"
      [] OTHER -> t

ToLower(s) == [i \in 1..Len(s) |-> LowerTok(s[i])]

\* strings.EqualFold on single tokens
EqualFold(a, b) == LowerTok(a) = LowerTok(b)

\* the sequences over S that list every element exactly once
Perms(S) ==
    {s \in [1..Cardinality(S) -> S] : \A i, j \in 1..Cardinality(S) : s[i] = s[j] => i = j}

RECURSIVE Flatten(_)
Flatten(ss) == IF ss = <<>> THEN <<>> ELSE Head(ss) \o Flatten(Tail(ss))

----------------------------------------------------------------------------
(* constants.go *)

GET == "GET"
POST == "POST"
PUT == "PUT"
PATCH == "PATCH"
MERGE == "MERGE"
DELETE == "DELETE"
CSRFTokenFetch == "Fetch"

\* the list in doRequestWithRetry
modifyingMethodsBroken == {GET, POST, PUT, MERGE, PATCH, DELETE}

modifyingMethods == {POST, PUT, MERGE, PATCH, DELETE}

\* http.NewRequestWithContext refuses a method that is not a token (one
\* with a space); the empty method is accepted and stands for GET
ValidMethod(m) == m # "B D"

----------------------------------------------------------------------------
(* JSON values and request bodies *)

Str(s) == [t |-> "string", v |-> s]
Num(n) == [t |-> "number", v |-> n]

\* the names a JSON object of the model can have, in byte order (the order
\* encoding/json writes the keys of a map in)
FieldOrder ==
    <<"$expand", "$filter", "$format", "$inlinecount", "$orderby", "$search",
      "$select", "$skip", "$top", "ID", "Name", "OrderID", "Pos", "Qty", "_method",
      "category">>

\* the keys of a map, sorted
SortedKeys(m) == SelectSeq(FieldOrder, LAMBDA k : k \in DOMAIN m)

\* encoding/json of one value: a string is quoted, a float64 that is a whole
\* number below 1e21 is written as its digits
jsonValue(x) ==
    IF x.t = "string" THEN "\"" \o x.v \o "\"" ELSE ToString(x.v)

\* json.Marshal of a map[string]interface{}
Marshal(m) ==
    LET ks == SortedKeys(m)
        member(i) == (IF i > 1 THEN <<",">> ELSE <<>>)
                     \o <<"\"" \o ks[i] \o "\"", ":", jsonValue(m[ks[i]])>>
    IN <<"{">> \o Flatten([i \in 1..Len(ks) |-> member(i)]) \o <<"}">>

EmptyMap == <<>>

----------------------------------------------------------------------------
(* Key predicates, client.go:540-573 *)

RECURSIVE Pow10(_)
Pow10(k) == IF k = 0 THEN 1 ELSE 10 * Pow10(k - 1)

RECURSIVE NumDigits(_)
NumDigits(n) == IF n < 10 THEN 1 ELSE 1 + NumDigits(n \div 10)

\* the k low digits of n, zero-padded
RECURSIVE DigitStr(_, _)
DigitStr(n, k) == IF k = 0 THEN "" ELSE DigitStr(n \div 10, k - 1) \o ToString(n % 10)

RECURSIVE StripZeros(_)
StripZeros(n) == IF n # 0 /\ n % 10 = 0 THEN StripZeros(n \div 10) ELSE n

\* fmt %g of a non-negative whole float64: plain digits below 1e6, else the
\* shortest mantissa with a two-digit exponent (1e+06, 1.5e+06)
FormatG(n) ==
    IF n < Pow10(6) THEN ToString(n)
    ELSE LET e == NumDigits(n) - 1
             m == StripZeros(n)
             lead == m \div Pow10(NumDigits(m) - 1)
             rest == m % Pow10(NumDigits(m) - 1)
         IN ToString(lead)
            \o (IF NumDigits(m) > 1
                THEN "." \o DigitStr(rest, NumDigits(m) - 1) ELSE "")
            \o "e+" \o (IF e < 10 THEN "0" ELSE "") \o ToString(e)

formatKeyValue(value) ==
    IF value.t = "string" THEN "'" \o value.v \o "'" ELSE FormatG(value.v)

\* buildKeyPredicate ranges over a Go map, whose iteration order is not
\* fixed: every order of a composite key is a possible outcome
buildKeyPredicate(key) ==
    IF Cardinality(DOMAIN key) = 1
    THEN {<<formatKeyValue(key[k])>> : k \in DOMAIN key}
    ELSE {Flatten([i \in 1..Len(p) |->
                     (IF i > 1 THEN <<",">> ELSE <<>>)
                     \o <<p[i], "=", formatKeyValue(key[p[i]])>>]) :
          p \in Perms(DOMAIN key)}

\* fmt.Sprintf("%s(%s)", entitySet, keyPredicate)
entityEndpoint(entitySet, pred) == <<entitySet, "(">> \o pred \o <<")">>

----------------------------------------------------------------------------
(* HTTP exchanges *)

\* a response body: its text, and whether it is a JSON document of the form
\* {"error":{"message": <text>}}
PlainBody(text) == [json |-> FALSE, text |-> text]
ErrorBody(text) == [json |-> TRUE, text |-> text]

\* a response; hdr is the value of its X-CSRF-Token header ("" when absent),
\* cookies the names of its Set-Cookie headers
Response(status, hdr, cookies, body) ==
    [err |-> FALSE, status |-> status, hdr |-> hdr, cookies |-> cookies, body |-> body]

\* httpClient.Do returned an error instead of a response
TransportError ==
    [err |-> TRUE, status |-> 0, hdr |-> "", cookies |-> <<>>,
     body |-> PlainBody(<<"connection", "refused">>)]

NoReq == [kind |-> "none", method |-> "", url |-> <<>>, token |-> "",
          cookies |-> <<>>, body |-> <<>>]
NoOp == [name |-> "none", method |-> "", endpoint |-> <<>>, hasBody |-> FALSE,
         jsonData |-> <<>>]
NoResult == [state |-> "none", err |-> <<>>]
Ok == [state |-> "ok", err |-> <<>>]
Err(text) == [state |-> "err", err |-> text]

\* buildRequest, client.go:60-104: the session cookies and, when the client
\* holds one, the token are attached
buildRequest(tok, cks, method, endpoint, body) ==
    [kind |-> "orig", method |-> IF method = "" THEN GET ELSE method,
     url |-> endpoint, token |-> tok, cookies |-> cks, body |-> body]

\* the request fetchCSRFToken issues (client.go:196-204): built after the
\* token was cleared, then given the Fetch header
fetchRequest(cks) ==
    [buildRequest("", cks, GET, <<>>, <<>>) EXCEPT !.kind = "fetch", !.token = CSRFTokenFetch]

\* fetchCSRFToken on entry, client.go:196: any token held is dropped
clearedTokenBroken(tok) == tok

clearedToken(tok) == ""

\* fetchCSRFToken from the response on, client.go:212-257: the client's
\* token and cookies afterwards, and whether it returned nil.  tok is the
\* client's token when the response arrives.
fetchCSRFTokenBroken(tok, cks, resp) ==
    IF resp.err
    THEN [ok |-> FALSE, token |-> tok, cookies |-> cks]
    ELSE IF resp.hdr = "" \/ resp.hdr = CSRFTokenFetch
         THEN [ok |-> FALSE, token |-> tok, cookies |-> cks \o resp.cookies]
         ELSE [ok |-> TRUE, token |-> tok, cookies |-> cks \o resp.cookies]

fetchCSRFToken(tok, cks, resp) ==
    IF resp.err
    THEN [ok |-> FALSE, token |-> tok, cookies |-> cks]
    ELSE IF resp.hdr = "" \/ resp.hdr = CSRFTokenFetch
         THEN [ok |-> FALSE, token |-> tok, cookies |-> cks \o resp.cookies]
         ELSE [ok |-> TRUE, token |-> resp.hdr, cookies |-> cks \o resp.cookies]

\* the test of client.go:156-158
csrfFailed(resp) ==
    \/ Contains(resp.body.text, <<"CSRF", "token", "validation", "failed">>)
    \/ Contains(ToLower(resp.body.text), <<"csrf">>)
    \/ EqualFold(resp.hdr, "required")

\* whether doRequestWithRetry takes the refetch branch, client.go:140-160
needsRefetchBroken(r, retry, resp) ==
    /\ resp.status = 403
    /\ r.method \in modifyingMethods
    /\ csrfFailed(resp)

needsRefetch(r, retry, resp) ==
    /\ resp.status = 403
    /\ r.method \in modifyingMethods
    /\ ~retry
    /\ csrfFailed(resp)

\* doRequest, client.go:109-117: the body is buffered when there is one
bufferBody(r, contentLength) ==
    IF r.body # <<>> /\ contentLength > 0 THEN r.body ELSE <<>>

\* doRequestWithRetry, client.go:129-132: the body is reset from the buffer
resetBodyBroken(r, buf) == r

resetBody(r, buf) ==
    IF buf # <<>> THEN [r EXCEPT !.body = buf] ELSE r

\* httpClient.Do reads the request body to its end
consumed(r) == [r EXCEPT !.body = <<>>]

\* buildDetailedError, client.go:714-761, for an error object with a message
buildDetailedError(text, statusCode) ==
    <<"OData", "error", "(", "HTTP", ToString(statusCode), ")", ":">> \o text

\* parseErrorFromBody, client.go:699-711
parseErrorFromBody(body, statusCode) ==
    IF body.json
    THEN buildDetailedError(body.text, statusCode)
    ELSE <<"HTTP", ToString(statusCode), ":">> \o body.text

\* the first byte of a body text that is no JSON document
FirstByte(tok) ==
    CASE tok = "CSRF" -> "C"
      [] tok \in {"connection", "context"} -> "c"
      [] tok = "<edmx:Edmx>" -> "<"

\* what json.Unmarshal says of a text that does not begin a JSON value
jsonSyntaxError(text) ==
    <<"invalid", "character", "'" \o FirstByte(Head(text)) \o "'",
      "looking", "for", "beginning", "of", "value">>

\* parseODataResponse, client.go:595-628, as far as success and failure go:
\* an error status is an error, an empty body is an empty response, a body
\* that is no JSON document fails both decodings, a JSON object (here the
\* error object, which has no d member) decodes into an empty response
parseODataResponse(resp) ==
    IF resp.status >= 400
    THEN Err(parseErrorFromBody(resp.body, resp.status))
    ELSE IF resp.body.text = <<>> /\ ~resp.body.json
    THEN Ok
    ELSE IF ~resp.body.json
    THEN Err(<<"failed", "to", "parse", "OData", "response", ":">>
             \o jsonSyntaxError(resp.body.text))
    ELSE Ok

\* a metadata document: its envelope is the edmx element
EdmxBody == PlainBody(<<"<edmx:Edmx>">>)

\* parseMetadataXML, client.go:771-773: whether metadata.ParseMetadata
\* accepts the body
parseMetadataXML(body) == ~body.json /\ body.text # <<>> /\ Head(body.text) = "<edmx:Edmx>"

\* the statuses GetMetadata and getServiceDocument turn into an error,
\* client.go:281-283 and 790-792: any but 200
metadataResult(resp) ==
    IF resp.status # 200
    THEN Err(parseErrorFromBody(resp.body, resp.status))
    ELSE Ok

----------------------------------------------------------------------------
(* Query strings *)

\* url.QueryEscape of an option name: the $ is percent-encoded
QueryEscape(k) ==
    CASE k = "$expand" -> "%24expand"
      [] k = "$filter" -> "%24filter"
      [] k = "$format" -> "%24format"
      [] k = "$inlinecount" -> "%24inlinecount"
      [] k = "$orderby" -> "%24orderby"
      [] k = "$skip" -> "%24skip"
      [] k = "$search" -> "%24search"
      [] k = "$select" -> "%24select"
      [] k = "$top" -> "%24top"
      [] OTHER -> k

\* "?" + url.Values.Encode(): the keys sorted, nothing for an empty set
queryString(params) ==
    LET ks == SortedKeys(params)
    IN IF Len(ks) = 0 THEN <<>>
       ELSE <<"?">> \o Flatten([i \in 1..Len(ks) |->
                (IF i > 1 THEN <<"&">> ELSE <<>>)
                \o <<QueryEscape(ks[i]), "=", params[ks[i]]>>])

\* the options that are not the empty string
nonEmpty(options) ==
    [k \in {x \in DOMAIN options : options[x] # ""} |-> options[k]]

\* GetEntitySet, client.go:304-326: $format=json, $inlinecount=allpages
\* unless the caller set it, then the caller's non-empty options
entitySetParams(options) ==
    LET base == IF "$inlinecount" \in DOMAIN options
                THEN [k \in {"$format"} |-> "json"]
                ELSE [k \in {"$format", "$inlinecount"} |->
                        IF k = "$format" THEN "json" ELSE "allpages"]
        mine == nonEmpty(options)
    IN [k \in DOMAIN base \cup DOMAIN mine |->
          IF k \in DOMAIN mine THEN mine[k] ELSE base[k]]

\* formatFunctionParameter, client.go:576-592
formatFunctionParameter(key, value) ==
    IF value.t = "string"
    THEN <<key, "=", "'" \o value.v \o "'">>
    ELSE <<key, "=", FormatG(value.v)>>

\* CallFunction with GET, client.go:492-498: the parameters in the order the
\* map is ranged over
functionEndpoint(functionName, parameters) ==
    IF DOMAIN parameters = {}
    THEN {<<functionName>>}
    ELSE {<<functionName, "?">> \o Flatten([i \in 1..Len(p) |->
                (IF i > 1 THEN <<"&">> ELSE <<>>)
                \o formatFunctionParameter(p[i], parameters[p[i]])]) :
          p \in Perms(DOMAIN parameters)}

----------------------------------------------------------------------------
(* The client's operations, one action per stretch of code between two     *)
(* HTTP calls                                                              *)

\* doRequestWithRetry from its entry to httpClient.Do, client.go:123-134:
\* the request goes out on the wire w, its body is read to the end
issue(w, r, buf, retry) ==
    LET r2 == resetBody(r, buf)
    IN /\ wire' = Append(w, r2)
       /\ req' = consumed(r2)
       /\ bodyBytes' = buf
       /\ isRetry' = retry
       /\ cpc' = "send"

\* the operation returns
return(res) ==
    /\ result' = res
    /\ cpc' = "done"

\* CreateEntity, UpdateEntity, DeleteEntity and the POST branch of
\* CallFunction start with fetchCSRFToken (client.go:378, 415, 459, 502),
\* which clears the token and issues the Fetch GET
beginModifying(name, method, endpoint, hasBody, jsonData) ==
    /\ op' = [name |-> name, method |-> method, endpoint |-> endpoint,
              hasBody |-> hasBody, jsonData |-> jsonData]
    /\ heldAtStart' = csrfToken
    /\ csrfToken' = clearedToken(csrfToken)
    /\ wire' = <<fetchRequest(sessionCookies)>>
    /\ resps' = <<>>
    /\ cpc' = "prefetch"
    /\ req' = NoReq
    /\ bodyBytes' = <<>>
    /\ isRetry' = FALSE
    /\ result' = NoResult
    /\ UNCHANGED sessionCookies

\* GetEntitySet, GetEntity and the GET branch of CallFunction build the
\* request and hand it to doRequest
beginRead(name, endpoint) ==
    /\ op' = [name |-> name, method |-> GET, endpoint |-> endpoint,
              hasBody |-> FALSE, jsonData |-> <<>>]
    /\ heldAtStart' = csrfToken
    /\ resps' = <<>>
    /\ result' = NoResult
    /\ issue(<<>>, buildRequest(csrfToken, sessionCookies, GET, endpoint, <<>>),
             <<>>, FALSE)
    /\ UNCHANGED <<csrfToken, sessionCookies>>

CreateEntity(entitySet, data) ==
    beginModifying("CreateEntity", POST, <<entitySet>>, TRUE, Marshal(data))

UpdateEntity(entitySet, key, data, method) ==
    \E pred \in buildKeyPredicate(key) :
        beginModifying("UpdateEntity", IF method = "" THEN PUT ELSE method,
                       entityEndpoint(entitySet, pred), TRUE, Marshal(data))

DeleteEntity(entitySet, key) ==
    \E pred \in buildKeyPredicate(key) :
        beginModifying("DeleteEntity", DELETE, entityEndpoint(entitySet, pred),
                       FALSE, <<>>)

CallFunction(functionName, parameters, method) ==
    IF method = GET
    THEN \E e \in functionEndpoint(functionName, parameters) :
            beginRead("CallFunction", e)
    ELSE beginModifying("CallFunction", POST, <<functionName>>, TRUE,
                        Marshal(parameters))

GetEntitySet(entitySet, options) ==
    beginRead("GetEntitySet", <<entitySet>> \o queryString(entitySetParams(options)))

GetEntity(entitySet, key, options) ==
    \E pred \in buildKeyPredicate(key) :
        beginRead("GetEntity",
                  entityEndpoint(entitySet, pred) \o queryString(nonEmpty(options)))

\* GetMetadata up to doRequest, client.go:269-276: a GET of $metadata
MetadataRequest == beginRead("GetMetadata", <<"$metadata">>)

\* getServiceDocument, client.go:776-786, which GetMetadata falls back to
\* when the document does not parse: a GET of the service root
ServiceDocumentOp ==
    [name |-> "getServiceDocument", method |-> GET, endpoint |-> <<>>,
     hasBody |-> FALSE, jsonData |-> <<>>]

\* the request getServiceDocument builds, client.go:777
serviceDocumentRequest(tok, cks) ==
    [buildRequest(tok, cks, GET, <<>>, <<>>) EXCEPT !.kind = "root"]

\* the Fetch GET issued on entry returns: the rest of fetchCSRFToken, then
\* the operation builds its request (buildRequest, doRequest) and sends it
PrefetchReturn(R) ==
    /\ cpc = "prefetch"
    /\ \E resp \in R :
        LET f == fetchCSRFToken(csrfToken, sessionCookies, resp)
            r == buildRequest(f.token, f.cookies, op.method, op.endpoint, op.jsonData)
        IN /\ csrfToken' = f.token
           /\ sessionCookies' = f.cookies
           /\ resps' = Append(resps, resp)
           /\ IF ValidMethod(op.method)
              THEN /\ issue(wire, r, bufferBody(r, Len(op.jsonData)), FALSE)
                   /\ UNCHANGED result
              ELSE /\ return(Err(<<"failed", "to", "create", "request", ":",
                                   "net/http", ":", "invalid", "method">>))
                   /\ UNCHANGED <<req, bodyBytes, isRetry, wire>>
    /\ UNCHANGED <<op, heldAtStart, nOps>>

\* httpClient.Do of the operation's request returns, client.go:134-186, then
\* the caller goes on: parseODataResponse for the data operations; for
\* GetMetadata the status test and parseMetadataXML, client.go:281-299, and
\* when the document does not parse the request of getServiceDocument,
\* whose answer is only tested for its status, client.go:790-792
SendReturn(R) ==
    /\ cpc = "send"
    /\ \E resp \in R :
        /\ resps' = Append(resps, resp)
        /\ IF resp.err
           THEN /\ return(Err(<<"HTTP", "request", "failed", ":">> \o resp.body.text))
                /\ UNCHANGED <<csrfToken, wire, op, req, bodyBytes, isRetry>>
           ELSE IF needsRefetch(req, isRetry, resp)
                THEN /\ csrfToken' = clearedToken("")
                     /\ wire' = Append(wire, fetchRequest(sessionCookies))
                     /\ cpc' = "refetch"
                     /\ UNCHANGED <<result, op, req, bodyBytes, isRetry>>
                ELSE IF op.name = "GetMetadata" /\ resp.status = 200
                        /\ ~parseMetadataXML(resp.body)
                THEN /\ op' = ServiceDocumentOp
                     /\ issue(wire, serviceDocumentRequest(csrfToken, sessionCookies),
                              <<>>, FALSE)
                     /\ UNCHANGED <<csrfToken, result>>
                ELSE /\ return(IF op.name \in {"GetMetadata", "getServiceDocument"}
                                THEN metadataResult(resp)
                                ELSE parseODataResponse(resp))
                     /\ UNCHANGED <<csrfToken, wire, op, req, bodyBytes, isRetry>>
    /\ UNCHANGED <<sessionCookies, heldAtStart, nOps>>

\* the Fetch GET issued after a CSRF failure returns, client.go:169-179
RefetchReturn(R) ==
    /\ cpc = "refetch"
    /\ \E resp \in R :
        LET f == fetchCSRFToken(csrfToken, sessionCookies, resp)
            failed == resps[Len(resps)]
        IN /\ csrfToken' = f.token
           /\ sessionCookies' = f.cookies
           /\ resps' = Append(resps, resp)
           /\ IF f.ok
              THEN /\ issue(wire, [req EXCEPT !.token = f.token], bodyBytes, TRUE)
                   /\ UNCHANGED result
              ELSE /\ return(Err(<<"CSRF", "token", "required", "but", "refetch",
                                   "failed", ".", "Status", ":",
                                   ToString(failed.status), ".", "Response", ":">>
                                 \o failed.body.text))
                   /\ UNCHANGED <<req, bodyBytes, isRetry, wire>>
    /\ UNCHANGED <<op, heldAtStart, nOps>>

----------------------------------------------------------------------------
(* The client on its own: a caller invokes the public operations one after *)
(* the other, the service answers each request as it likes                 *)

\* answers to a token fetch: no answer, no token, the literal Fetch, a token
CFetchResponses ==
    {TransportError}
    \cup {Response(200, h, c, PlainBody(<<>>)) :
            h \in {"", CSRFTokenFetch, "ABC", "XYZ"}, c \in {<<>>, <<"sid">>}}

CBodies ==
    {PlainBody(<<>>), PlainBody(<<"CSRF", "token", "validation", "failed">>),
     ErrorBody(<<"access", "denied">>)}

\* answers to an original request
COrigResponses ==
    {TransportError, Response(200, "", <<>>, EdmxBody)}
    \cup {Response(st, h, <<>>, b) :
            st \in {200, 201, 403, 404}, h \in {"", "Required"}, b \in CBodies}

CKeys == {[k \in {"ID"} |-> Num(5)]}
CData == {[k \in {"Name"} |-> Str("x")],
          [k \in {"Name", "Qty"} |-> IF k = "Name" THEN Str("y") ELSE Num(1)]}
CMethods == {"", MERGE, GET, "B D"}

\* no bridge has been constructed: the tool table of NewServer, bridge.go:1964-1980
NoBridge ==
    [phase |-> "none", Verbose |-> FALSE, SortTools |-> FALSE, metadata |-> <<>>,
     AllowedEntities |-> <<>>, fallback |-> "none"]
NoListing == [done |-> FALSE, names |-> <<>>, pending |-> FALSE, copy |-> <<>>]

InitNoBridge ==
    /\ bridge = NoBridge
    /\ sTools = <<>>
    /\ sToolOrder = <<>>
    /\ sHandlers = <<>>
    /\ stdout = <<>>
    /\ listed = NoListing
    /\ regCalls = <<>>

InitServerIdle ==
    /\ spc = "scan"
    /\ line = <<>>
    /\ nLines = 0
    /\ readLog = <<>>
    /\ output = <<>>
    /\ initialized = FALSE
    /\ dispatched = <<>>
    /\ cancelled = FALSE

\* NewODataClient, client.go:33-46
InitClientVars ==
    /\ csrfToken = ""
    /\ sessionCookies = <<>>
    /\ cpc = "idle"
    /\ op = NoOp
    /\ req = NoReq
    /\ bodyBytes = <<>>
    /\ isRetry = FALSE
    /\ wire = <<>>
    /\ resps = <<>>
    /\ result = NoResult
    /\ heldAtStart = ""
    /\ nOps = 0

\* NewODataMCPBridge, bridge.go:858-864: not running, the stop channel open
NewLife ==
    [running |-> FALSE, closed |-> FALSE, panicked |-> FALSE, loops |-> 0,
     calls |-> <<>>]

InitCls == cls = [phase |-> "none"] /\ calc = [fn |-> "none"] /\ life = NewLife

InitClient == InitClientVars /\ InitServerIdle /\ InitCls /\ InitNoBridge

callable == cpc \in {"idle", "done"} /\ nOps < MaxOps /\ nOps' = nOps + 1

CCreate ==
    /\ callable
    /\ \E d \in CData : CreateEntity("Products", d)
    /\ UNCHANGED <<serverVars, cls, calc, life, toolVars>>

CUpdate ==
    /\ callable
    /\ \E k \in CKeys, d \in CData, m \in CMethods : UpdateEntity("Products", k, d, m)
    /\ UNCHANGED <<serverVars, cls, calc, life, toolVars>>

CDelete ==
    /\ callable
    /\ \E k \in CKeys : DeleteEntity("Products", k)
    /\ UNCHANGED <<serverVars, cls, calc, life, toolVars>>

CFunction ==
    /\ callable
    /\ \E m \in {GET, POST} :
          CallFunction("GetProducts", [k \in {"category"} |-> Str("Food")], m)
    /\ UNCHANGED <<serverVars, cls, calc, life, toolVars>>

CGetEntitySet ==
    /\ callable
    /\ \E o \in {EmptyMap, [k \in {"$top"} |-> "0"]} : GetEntitySet("Products", o)
    /\ UNCHANGED <<serverVars, cls, calc, life, toolVars>>

CGetEntity ==
    /\ callable
    /\ \E k \in CKeys : GetEntity("Products", k, EmptyMap)
    /\ UNCHANGED <<serverVars, cls, calc, life, toolVars>>

CGetMetadata ==
    /\ callable
    /\ MetadataRequest
    /\ UNCHANGED <<serverVars, cls, calc, life, toolVars>>

CPrefetchReturn == PrefetchReturn(CFetchResponses) /\ UNCHANGED <<serverVars, cls, calc, life, toolVars>>
CSendReturn == SendReturn(COrigResponses) /\ UNCHANGED <<serverVars, cls, calc, life, toolVars>>
CRefetchReturn == RefetchReturn(CFetchResponses) /\ UNCHANGED <<serverVars, cls, calc, life, toolVars>>

NextClient ==
    \/ CCreate
    \/ CUpdate
    \/ CDelete
    \/ CFunction
    \/ CGetEntitySet
    \/ CGetEntity
    \/ CGetMetadata
    \/ CPrefetchReturn
    \/ CSendReturn
    \/ CRefetchReturn

SpecClient == InitClient /\ [][NextClient]_vars

----------------------------------------------------------------------------
(* Error classification, bridge.go:2239-2300 *)

\* the code categorizeError returns for an error text: the first case of
\* the switch that matches decides
categorizeErrorCode(errStr) ==
    IF Contains(errStr, <<"HTTP", "400">>) \/ Contains(errStr, <<"Bad", "Request">>)
    THEN -32602
    ELSE IF Contains(errStr, <<"HTTP", "401">>) \/ Contains(errStr, <<"Unauthorized">>)
    THEN -32603
    ELSE IF Contains(errStr, <<"HTTP", "403">>) \/ Contains(errStr, <<"Forbidden">>)
    THEN -32603
    ELSE IF Contains(errStr, <<"HTTP", "404">>) \/ Contains(errStr, <<"Not", "Found">>)
    THEN -32602
    ELSE IF Contains(errStr, <<"HTTP", "409">>) \/ Contains(errStr, <<"Conflict">>)
    THEN -32603
    ELSE IF Contains(errStr, <<"HTTP", "422">>) \/ Contains(errStr, <<"Unprocessable">>)
    THEN -32602
    ELSE IF Contains(errStr, <<"HTTP", "429">>)
            \/ Contains(errStr, <<"Too", "Many", "Requests">>)
    THEN -32603
    ELSE IF Contains(errStr, <<"HTTP", "500">>)
            \/ Contains(errStr, <<"Internal", "Server", "Error">>)
    THEN -32603
    ELSE IF Contains(errStr, <<"HTTP", "502">>) \/ Contains(errStr, <<"Bad", "Gateway">>)
    THEN -32603
    ELSE IF Contains(errStr, <<"HTTP", "503">>)
            \/ Contains(errStr, <<"Service", "Unavailable">>)
    THEN -32603
    ELSE IF Contains(errStr, <<"CSRF", "token">>)
    THEN -32603
    ELSE IF Contains(errStr, <<"timeout">>) \/ Contains(errStr, <<"deadline", "exceeded">>)
    THEN -32603
    ELSE IF Contains(errStr, <<"connection", "refused">>) \/ Contains(errStr, <<"network">>)
    THEN -32603
    ELSE IF Contains(errStr, <<"invalid", "metadata">>) \/ Contains(errStr, <<"metadata">>)
    THEN -32603
    ELSE IF Contains(errStr, <<"invalid", "entity">>)
            \/ Contains(errStr, <<"entity", "not", "found">>)
    THEN -32602
    ELSE -32603

\* categorizeError: the code and the message
categorizeError(errStr, toolName) ==
    [code |-> categorizeErrorCode(errStr),
     message |-> <<"OData", "MCP", "tool", "'" \o toolName \o "'", "failed", ":">>
                 \o errStr]

----------------------------------------------------------------------------
(* The bridge: configuration, schema and generated tools *)

\* config.Config as far as tool names go; ServiceID is FormatServiceID of
\* the service URL
Config == [NoPostfix |-> FALSE, ToolPostfix |-> "", ToolPrefix |-> "",
           ToolShrink |-> FALSE, ServiceID |-> "svc_26"]

UsePostfix == ~Config.NoPostfix

\* formatToolName, bridge.go:1470-1497
formatToolName(operation, entityName) ==
    LET base == IF entityName # ""
                THEN IF UsePostfix THEN operation \o "_" \o entityName
                                   ELSE entityName \o "_" \o operation
                ELSE operation
        fixed == IF UsePostfix /\ Config.ToolPostfix # ""
                 THEN base \o "_" \o Config.ToolPostfix
                 ELSE IF ~UsePostfix /\ Config.ToolPrefix # ""
                      THEN Config.ToolPrefix \o "_" \o base
                      ELSE base
    IN IF UsePostfix /\ Config.ToolPostfix = ""
       THEN fixed \o "_for_" \o Config.ServiceID
       ELSE fixed

\* constants.GetToolOperationName
GetToolOperationName(operation, shrink) ==
    IF shrink /\ operation = "update" THEN "upd"
    ELSE IF shrink /\ operation = "delete" THEN "del"
    ELSE operation

\* models.EntityProperty
Property(name, isKey, nullable) == [Name |-> name, IsKey |-> isKey, Nullable |-> nullable]

\* the schema the bridge was initialized with (models.ODataMetadata)
Metadata ==
    [EntityTypes |->
        [Item |-> [KeyProperties |-> <<"OrderID", "Pos">>,
                   Properties |-> <<Property("OrderID", TRUE, FALSE),
                                    Property("Pos", TRUE, FALSE),
                                    Property("Name", FALSE, TRUE),
                                    Property("Qty", FALSE, FALSE)>>]],
     EntitySets |-> [Items |-> [EntityType |-> "Item", Creatable |-> TRUE,
                                Updatable |-> TRUE, Deletable |-> TRUE,
                                Searchable |-> FALSE]],
     FunctionImports |->
        [GetProducts |-> [HTTPMethod |-> "GET",
                          Parameters |-> <<[Name |-> "category", Mode |-> "In",
                                            Nullable |-> FALSE]>>]]]

\* the closure a generate...Tool function registers
closure(toolName, h, entitySet, function) ==
    [name |-> toolName, h |-> h, entitySet |-> entitySet, function |-> function]

\* mcp.Tool: the name, the properties of the input schema and its required list
Tool(toolName, properties, required) ==
    [Name |-> toolName, properties |-> properties, required |-> required]

\* what a generate...Tool function hands to AddTool
Registration(tool, handler) == [tool |-> tool, handler |-> handler]

\* the tool name of an entity set operation
opToolName(operation, setName) ==
    formatToolName(GetToolOperationName(operation, Config.ToolShrink), setName)

entityOp(operation, h, setName) ==
    <<closure(opToolName(operation, setName), h, setName, "")>>

propertyNames(et) == {et.Properties[i].Name : i \in 1..Len(et.Properties)}

\* generateGetTool, generateUpdateTool, generateDeleteTool: a key property
\* is put on the required list when the type declares a property of that
\* name, bridge.go:1191-1202
requiredKeysBroken(et) ==
    IF et.KeyProperties = <<>> THEN <<>>
    ELSE SelectSeq(<<Head(et.KeyProperties)>>, LAMBDA k : k \in propertyNames(et))

requiredKeys(et) == SelectSeq(et.KeyProperties, LAMBDA k : k \in propertyNames(et))

\* the names of the properties that are not keys, and of those among them
\* that are not nullable, in declaration order
nonKeyNames(et, onlyRequired) ==
    LET ps == SelectSeq(et.Properties,
                        LAMBDA q : ~q.IsKey /\ (onlyRequired => ~q.Nullable))
    IN [i \in 1..Len(ps) |-> ps[i].Name]

seqSet(q) == {q[i] : i \in 1..Len(q)}

\* generateFilterTool, bridge.go:1041-1097
generateFilterTool(setName, et) ==
    Registration(Tool(opToolName("filter", setName),
                      {"$filter", "$select", "$expand", "$orderby", "$top", "$skip"}, <<>>),
                 closure(opToolName("filter", setName), "handleEntityFilter", setName, ""))

\* generateCountTool, bridge.go:1100-1133
generateCountTool(setName, et) ==
    Registration(Tool(opToolName("count", setName), {"$filter"}, <<>>),
                 closure(opToolName("count", setName), "handleEntityCount", setName, ""))

\* generateSearchTool, bridge.go:1136-1178
generateSearchTool(setName, et) ==
    Registration(Tool(opToolName("search", setName),
                      {"search", "$select", "$top"}, <<"search">>),
                 closure(opToolName("search", setName), "handleEntitySearch", setName, ""))

\* generateGetTool, bridge.go:1181-1241
generateGetTool(setName, et) ==
    Registration(Tool(opToolName("get", setName),
                      seqSet(requiredKeys(et)) \cup {"$select", "$expand"},
                      requiredKeys(et)),
                 closure(opToolName("get", setName), "handleEntityGet", setName, ""))

\* generateCreateTool, bridge.go:1244-1298
generateCreateTool(setName, et) ==
    Registration(Tool(opToolName("create", setName),
                      seqSet(nonKeyNames(et, FALSE)), nonKeyNames(et, TRUE)),
                 closure(opToolName("create", setName), "handleEntityCreate", setName, ""))

\* generateUpdateTool, bridge.go:1301-1366
generateUpdateTool(setName, et) ==
    Registration(Tool(opToolName("update", setName),
                      seqSet(requiredKeys(et)) \cup seqSet(nonKeyNames(et, FALSE))
                      \cup {"_method"},
                      requiredKeys(et)),
                 closure(opToolName("update", setName), "handleEntityUpdate", setName, ""))

\* generateDeleteTool, bridge.go:1369-1415
generateDeleteTool(setName, et) ==
    Registration(Tool(opToolName("delete", setName),
                      seqSet(requiredKeys(et)), requiredKeys(et)),
                 closure(opToolName("delete", setName), "handleEntityDelete", setName, ""))

\* generateFunctionTool, bridge.go:1418-1468
generateFunctionTool(functionName, f) ==
    LET ins == SelectSeq(f.Parameters, LAMBDA q : q.Mode \in {"In", "InOut"})
        needed == SelectSeq(ins, LAMBDA q : ~q.Nullable)
    IN Registration(Tool(formatToolName(functionName, ""),
                         {ins[i].Name : i \in 1..Len(ins)},
                         [i \in 1..Len(needed) |-> needed[i].Name]),
                    closure(formatToolName(functionName, ""), "handleFunctionCall",
                            "", functionName))

\* generateServiceInfoTool, bridge.go:967-998
generateServiceInfoTool ==
    Registration(Tool(formatToolName("odata_service_info", ""), {"include_metadata"}, <<>>),
                 closure(formatToolName("odata_service_info", ""), "handleServiceInfo",
                         "", ""))

\* the bytes of the entity set and function names, for prefix and suffix tests
Chars(name) ==
    CASE name = "Items" -> <<"I", "t", "e", "m", "s">>
      [] name = "Orders" -> <<"O", "r", "d", "e", "r", "s">>
      [] name = "Ghosts" -> <<"G", "h", "o", "s", "t", "s">>
      [] name = "GetProducts" -> <<"G", "e", "t", "P", "r", "o", "d", "u", "c", "t", "s">>
      [] name = "Name" -> <<"N", "a", "m", "e">>
      [] name = "name" -> <<"n", "a", "m", "e">>
      [] name = "Qty" -> <<"Q", "t", "y">>
      [] name = "Info" -> <<"I", "n", "f", "o">>
      [] name = "Net_amt" -> <<"N", "e", "t", "_", "a", "m", "t">>
      [] OTHER -> <<name>>

\* strings.HasPrefix and strings.HasSuffix
HasPrefix(q, pre) == Len(pre) <= Len(q) /\ SubSeq(q, 1, Len(pre)) = pre
HasSuffix(q, suf) == Len(suf) <= Len(q) /\ SubSeq(q, Len(q) - Len(suf) + 1, Len(q)) = suf

\* matchesPattern, bridge.go:944-964: equality, or a wildcard at one end
matchesPattern(name, pattern) ==
    IF pattern = Chars(name) THEN TRUE
    ELSE IF HasSuffix(pattern, <<"*">>)
         THEN HasPrefix(Chars(name), SubSeq(pattern, 1, Len(pattern) - 1))
         ELSE IF HasPrefix(pattern, <<"*">>)
              THEN HasSuffix(Chars(name), SubSeq(pattern, 2, Len(pattern)))
              ELSE FALSE

\* shouldIncludeEntity and shouldIncludeFunction, bridge.go:916-942
shouldInclude(name, allowed) ==
    \/ Len(allowed) = 0
    \/ \E i \in 1..Len(allowed) : matchesPattern(name, allowed[i])

\* generateEntitySetTools, bridge.go:1000-1038: the registrations it makes
generateEntitySetToolsBroken(md, setName) ==
    LET set == md.EntitySets[setName]
        et == md.EntityTypes[set.EntityType]
    IN IF set.EntityType \notin DOMAIN md.EntityTypes
       THEN <<>>
       ELSE <<generateFilterTool(setName, et), generateCountTool(setName, et),
              generateSearchTool(setName, et), generateGetTool(setName, et)>>
            \o (IF set.Creatable THEN <<generateCreateTool(setName, et)>> ELSE <<>>)
            \o (IF set.Updatable THEN <<generateUpdateTool(setName, et)>> ELSE <<>>)
            \o (IF set.Deletable THEN <<generateDeleteTool(setName, et)>> ELSE <<>>)

generateEntitySetTools(md, setName) ==
    LET set == md.EntitySets[setName]
        et == md.EntityTypes[set.EntityType]
    IN IF set.EntityType \notin DOMAIN md.EntityTypes
       THEN <<>>
       ELSE <<generateFilterTool(setName, et), generateCountTool(setName, et)>>
            \o (IF set.Searchable THEN <<generateSearchTool(setName, et)>> ELSE <<>>)
            \o <<generateGetTool(setName, et)>>
            \o (IF set.Creatable THEN <<generateCreateTool(setName, et)>> ELSE <<>>)
            \o (IF set.Updatable THEN <<generateUpdateTool(setName, et)>> ELSE <<>>)
            \o (IF set.Deletable THEN <<generateDeleteTool(setName, et)>> ELSE <<>>)

\* generateEntitySetTools, bridge.go:1003-1008: what it prints when the
\* entity type of the set is not in the schema
entityTypeNotFoundBroken(md, setName, verbose) == <<>>

entityTypeNotFound(md, setName, verbose) ==
    IF md.EntitySets[setName].EntityType \notin DOMAIN md.EntityTypes /\ verbose
    THEN <<<<"[VERBOSE]", "Entity", "type", "not", "found", "for", "entity", "set",
             setName>>>>
    ELSE <<>>

\* generateTools, bridge.go:895-914: the registrations made when the maps of
\* entity sets and function imports are ranged over in the orders given
\* (no function filter is configured)
generateToolsFor(md, setOrder, fnOrder, allowed) ==
    LET sets == SelectSeq(setOrder, LAMBDA n : shouldInclude(n, allowed))
        fns == SelectSeq(fnOrder, LAMBDA n : shouldInclude(n, <<>>))
    IN <<generateServiceInfoTool>>
       \o Flatten([i \in 1..Len(sets) |-> generateEntitySetTools(md, sets[i])])
       \o [i \in 1..Len(fns) |->
             generateFunctionTool(fns[i], md.FunctionImports[fns[i]])]

generateToolsIn(md, setOrder, fnOrder) == generateToolsFor(md, setOrder, fnOrder, <<>>)

\* what generateTools writes to os.Stdout
generateToolsPrintsFor(md, setOrder, verbose, allowed) ==
    LET sets == SelectSeq(setOrder, LAMBDA n : shouldInclude(n, allowed))
    IN Flatten([i \in 1..Len(sets) |-> entityTypeNotFound(md, sets[i], verbose)])

generateToolsPrints(md, setOrder, verbose) ==
    generateToolsPrintsFor(md, setOrder, verbose, <<>>)

\* generateTools for the schema Metadata, which has one entity set and one
\* function import
generateTools == generateToolsIn(Metadata, <<"Items">>, <<"GetProducts">>)

----------------------------------------------------------------------------
(* The server's tool table, bridge.go:1983-2025 *)

\* s.tools, s.toolOrder and s.handlers together
Registry(tools, order, hs) == [tools |-> tools, order |-> order, handlers |-> hs]

\* NewServer, bridge.go:1972-1974
EmptyRegistry == Registry(<<>>, <<>>, <<>>)

\* a map with the entry k -> v set
mapSet(m, k, v) == [n \in DOMAIN m \cup {k} |-> IF n = k THEN v ELSE m[n]]

\* a map with the entry of k deleted
mapDelete(m, k) == [n \in DOMAIN m \ {k} |-> m[n]]

\* AddTool, bridge.go:1987-1990: the name is appended to the order list
\* only when the tool map does not have it
orderAfterAddBroken(r, name) == Append(r.order, name)

orderAfterAdd(r, name) ==
    IF name \in DOMAIN r.tools THEN r.order ELSE Append(r.order, name)

\* AddTool, bridge.go:1983-1994
AddTool(r, tool, handler) ==
    Registry(mapSet(r.tools, tool.Name, tool),
             orderAfterAdd(r, tool.Name),
             mapSet(r.handlers, tool.Name, handler))

\* RemoveTool, bridge.go:2004-2010: the first occurrence of the name is cut
\* out of the order list
orderAfterRemoveBroken(order, name) == order

orderAfterRemove(order, name) ==
    LET idx == {i \in 1..Len(order) : order[i] = name}
    IN IF idx = {} THEN order
       ELSE LET i == CHOOSE x \in idx : \A y \in idx : x <= y
            IN SubSeq(order, 1, i - 1) \o SubSeq(order, i + 1, Len(order))

\* RemoveTool, bridge.go:1997-2011
RemoveTool(r, name) ==
    Registry(mapDelete(r.tools, name),
             orderAfterRemove(r.order, name),
             mapDelete(r.handlers, name))

\* the registry after the registrations regs were made in order
RECURSIVE registerAll(_, _)
registerAll(r, regs) ==
    IF regs = <<>> THEN r
    ELSE registerAll(AddTool(r, Head(regs).tool, Head(regs).handler), Tail(regs))

\* handleToolsList, bridge.go:2137-2146: the tools in the order of the list
handleToolsList(r) == SelectSeq(r.order, LAMBDA n : n \in DOMAIN r.tools)

\* the tool table after NewODataMCPBridge with the schema Metadata
builtRegistry == registerAll(EmptyRegistry, generateTools)

\* s.toolOrder and s.handlers after NewODataMCPBridge
toolOrder == builtRegistry.order
handlers == builtRegistry.handlers

\* the bridge once constructed
Bridge(verbose, sortTools, md) ==
    [phase |-> "ready", Verbose |-> verbose, SortTools |-> sortTools, metadata |-> md,
     AllowedEntities |-> <<>>, fallback |-> "none"]

\* NewODataMCPBridge with the schema Metadata and the flags at their
\* defaults (sort-tools on, verbose off)
InitBridge ==
    /\ bridge = Bridge(FALSE, TRUE, Metadata)
    /\ sTools = builtRegistry.tools
    /\ sToolOrder = builtRegistry.order
    /\ sHandlers = builtRegistry.handlers
    /\ stdout = <<>>
    /\ listed = NoListing
    /\ regCalls = <<>>

----------------------------------------------------------------------------
(* Tool handlers, bridge.go:1590-1889 *)

keyProperties(c) == Metadata.EntityTypes[Metadata.EntitySets[c.entitySet].EntityType].KeyProperties

\* the first element of seq that is not in dom, "" if there is none
firstMissing(seq, dom) ==
    LET idx == {i \in 1..Len(seq) : seq[i] \notin dom}
    IN IF idx = {} THEN "" ELSE seq[CHOOSE i \in idx : \A j \in idx : i <= j]

\* the In and InOut parameters of a function that are not nullable
requiredParams(f) ==
    SelectSeq([i \in 1..Len(f.Parameters) |->
                 IF f.Parameters[i].Mode \in {"In", "InOut"} /\ ~f.Parameters[i].Nullable
                 THEN f.Parameters[i].Name ELSE ""],
              LAMBDA n : n # "")

\* the error a handler returns before it calls the client, <<>> if none
preflightError(c, args) ==
    IF c.h \in {"handleEntityGet", "handleEntityUpdate", "handleEntityDelete"}
    THEN LET k == firstMissing(keyProperties(c), DOMAIN args)
         IN IF k = "" THEN <<>>
            ELSE <<"missing", "required", "key", "property", ":", k>>
    ELSE IF c.h = "handleFunctionCall"
    THEN LET k == firstMissing(requiredParams(Metadata.FunctionImports[c.function]),
                               DOMAIN args)
         IN IF k = "" THEN <<>>
            ELSE <<"missing", "required", "parameter", ":", k>>
    ELSE IF c.h = "handleEntitySearch"
    THEN IF \E k \in {"search", "search_term"} \cap DOMAIN args : args[k].t = "string"
         THEN <<>>
         ELSE <<"missing", "required", "parameter", ":", "search_term">>
    ELSE <<>>

\* the arguments restricted to the names in ks
restrict(args, ks) == [k \in DOMAIN args \cap ks |-> args[k]]

\* strings.HasPrefix(k, "$") on the names of the model
isSystemParam(k) ==
    k \in {"$expand", "$filter", "$format", "$inlinecount", "$orderby", "$search",
           "$select", "$skip", "$top"}

\* the string options a handler copies from the arguments
stringOptions(args, names) ==
    [k \in {n \in names \cap DOMAIN args : args[n].t = "string" /\ args[n].v # ""} |->
        args[k].v]

\* $top and $skip as the handlers pass them on: a number, written as an
\* integer
intOptions(args, names) ==
    [k \in {n \in names \cap DOMAIN args : args[n].t = "number"} |->
        ToString(args[k].v)]

\* the prefix a handler puts before the client's error
wrapPrefix(h) ==
    CASE h = "handleEntityFilter" -> <<"failed", "to", "filter", "entities", ":">>
      [] h = "handleEntityCount" -> <<"failed", "to", "get", "entity", "count", ":">>
      [] h = "handleEntitySearch" -> <<"failed", "to", "search", "entities", ":">>
      [] h = "handleEntityGet" -> <<"failed", "to", "get", "entity", ":">>
      [] h = "handleEntityCreate" -> <<"failed", "to", "create", "entity", ":">>
      [] h = "handleEntityUpdate" -> <<"failed", "to", "update", "entity", ":">>
      [] h = "handleEntityDelete" -> <<"failed", "to", "delete", "entity", ":">>
      [] h = "handleFunctionCall" -> <<"failed", "to", "call", "function", ":">>
      [] OTHER -> <<>>

\* the handler, past its pre-flight checks, calls the client
callClient(c, args) ==
    CASE c.h = "handleEntityFilter" ->
            GetEntitySet(c.entitySet,
                         stringOptions(args, {"$filter", "$select", "$expand", "$orderby"})
                         @@ intOptions(args, {"$top", "$skip"}))
      [] c.h = "handleEntityCount" ->
            GetEntitySet(c.entitySet,
                         [k \in {"$inlinecount", "$top"} |->
                             IF k = "$top" THEN "0" ELSE "allpages"]
                         @@ stringOptions(args, {"$filter"}))
      [] c.h = "handleEntitySearch" ->
            GetEntitySet(c.entitySet,
                         [k \in {"$search"} |->
                             IF "search" \in DOMAIN args /\ args["search"].t = "string"
                             THEN args["search"].v
                             ELSE args["search_term"].v]
                         @@ intOptions(args, {"$top", "$skip"}))
      [] c.h = "handleEntityGet" ->
            GetEntity(c.entitySet,
                      restrict(args, {keyProperties(c)[i] : i \in 1..Len(keyProperties(c))}),
                      stringOptions(args, {"$select", "$expand"}))
      [] c.h = "handleEntityCreate" ->
            CreateEntity(c.entitySet,
                         restrict(args, {k \in DOMAIN args : ~isSystemParam(k)}))
      [] c.h = "handleEntityUpdate" ->
            LET keys == {keyProperties(c)[i] : i \in 1..Len(keyProperties(c))}
            IN UpdateEntity(c.entitySet,
                            restrict(args, keys),
                            restrict(args, {k \in DOMAIN args :
                                              /\ k \notin keys
                                              /\ k # "_method"
                                              /\ ~isSystemParam(k)}),
                            IF "_method" \in DOMAIN args /\ args["_method"].t = "string"
                            THEN args["_method"].v ELSE PUT)
      [] c.h = "handleEntityDelete" ->
            DeleteEntity(c.entitySet,
                         restrict(args, {keyProperties(c)[i] : i \in 1..Len(keyProperties(c))}))
      [] c.h = "handleFunctionCall" ->
            LET f == Metadata.FunctionImports[c.function]
                names == {f.Parameters[i].Name : i \in
                            {j \in 1..Len(f.Parameters) :
                                f.Parameters[j].Mode \in {"In", "InOut"}}}
            IN CallFunction(c.function, restrict(args, names),
                            IF f.HTTPMethod = "" THEN GET ELSE f.HTTPMethod)

----------------------------------------------------------------------------
(* The JSON-RPC server, bridge.go:2034-2236 *)

\* the id member of a line: absent, null, or a number
AbsentID == [k |-> "absent", v |-> 0]
NullID == [k |-> "null", v |-> 0]
NumID(n) == [k |-> "num", v |-> n]

\* the params of a tools/call: whether "name" is a string, and whether
\* "arguments" is an object
NoParams == [hasName |-> FALSE, name |-> "", hasArgs |-> FALSE, arguments |-> EmptyMap]
CallParams(name, arguments) ==
    [hasName |-> TRUE, name |-> name, hasArgs |-> TRUE, arguments |-> arguments]

\* a line of input.  form says how far decoding gets: "empty" is the empty
\* line, "garbage" is text that is not JSON, which json.Unmarshal rejects,
\* "null" is the line null, which both decodings accept and which leaves
\* the Request as it was declared (no id, no method, no params),
\* "badtypes" is a JSON object that does not fit Request (a method that is
\* no string, params that are no object), "request" decodes.
Line(form, id, method, params) ==
    [form |-> form, id |-> id, method |-> method, params |-> params]

\* Request.ID after decoding: nil unless the line carries an id that is not null
decodedID(l) == IF l.id.k = "num" THEN l.id ELSE NullID

\* Response frames as sendError and sendResponse write them; a nil id is
\* written as null
errorFrame(id, code, message, data) ==
    [id |-> id, kind |-> "error", code |-> code, message |-> message,
     data |-> data, result |-> ""]

resultFrame(id, res) ==
    [id |-> id, kind |-> "result", code |-> 0, message |-> <<>>,
     data |-> <<>>, result |-> res]

\* what handling a line comes to: nothing, a frame written, the initialized
\* flag set, or a tool handler invoked
Nothing == [act |-> "none"]
Write(frame) == [act |-> "frame", frame |-> frame]
Invoke(id, name, args) == [act |-> "call", id |-> id, name |-> name, args |-> args]

\* handleMessage, bridge.go:2069-2073: json.Unmarshal into the map fails
\* and its error is returned, nothing is written.  (A JSON value that is
\* neither an object nor null fails the same way; the line null does not
\* fail and goes on as a Request without id and method.)
rawMsgError(l) == Nothing

\* handleMessage, bridge.go:2077-2084: the object does not fit Request; the
\* error carries the id of the raw message if there is one
requestError(l) ==
    Write(errorFrame(decodedID(l), -32700, <<"Parse", "error">>,
                     <<"json", ":", "cannot", "unmarshal">>))

\* the test of bridge.go:2092
missingIDBroken(l) == l.id.k = "absent" /\ l.method # "initialized"

missingID(l) == decodedID(l) = NullID /\ l.method # "initialized"

\* handleToolsCall, bridge.go:2171-2173: no handler has the name
toolNotFoundBroken(l) ==
    Write(errorFrame(decodedID(l), -32601, <<"Method", "not", "found">>,
                     <<"Tool", "not", "found", ":", l.params.name>>))

toolNotFound(l) ==
    Write(errorFrame(decodedID(l), -32602, <<"Invalid", "params">>,
                     <<"Tool", "not", "found", ":", l.params.name>>))

\* handleMessage, bridge.go:2105-2106: the method is none of those served
methodNotFoundBroken(l) ==
    Write(errorFrame(decodedID(l), -32600, <<"Invalid", "request">>, <<l.method>>))

methodNotFound(l) ==
    Write(errorFrame(decodedID(l), -32601, <<"Method", "not", "found">>, <<l.method>>))

\* handleInitialized, bridge.go:2129-2134: the flag is set, nothing is written
handleInitializedBroken(l) == Write(resultFrame(decodedID(l), "empty"))

handleInitialized(l) == [act |-> "initialized"]

\* handleToolsCall up to the call of the handler, bridge.go:2156-2175
handleToolsCall(l) ==
    LET params == IF l.params.hasArgs THEN l.params.arguments ELSE EmptyMap
    IN IF ~l.params.hasName
       THEN Write(errorFrame(decodedID(l), -32602, <<"Invalid", "params">>,
                             <<"Missing", "tool", "name">>))
       ELSE IF l.params.name \notin DOMAIN handlers
            THEN toolNotFound(l)
            ELSE Invoke(decodedID(l), l.params.name, params)

\* handleMessage, bridge.go:2067-2108
handleMessage(l) ==
    IF l.form = "garbage" THEN rawMsgError(l)
    ELSE IF l.form = "badtypes" THEN requestError(l)
    ELSE IF l.method = "initialized" THEN handleInitialized(l)
    ELSE IF missingID(l)
    THEN Write(errorFrame(NumID(1), -32600, <<"Invalid", "request">>,
                          <<"Missing", "ID", "for", "request">>))
    ELSE CASE l.method = "initialize" -> Write(resultFrame(decodedID(l), "initialize"))
           [] l.method = "tools/list" -> Write(resultFrame(decodedID(l), "tools"))
           [] l.method = "tools/call" -> handleToolsCall(l)
           [] l.method = "ping" -> Write(resultFrame(decodedID(l), "empty"))
           [] OTHER -> methodNotFound(l)

\* the frame handleToolsCall writes for a handler that returned an error,
\* bridge.go:2176-2180
toolErrorFrame(id, name, errStr) ==
    LET e == categorizeError(errStr, name)
    IN errorFrame(id, e.code, e.message,
                  <<"{", "tool", ":", name, ",", "original_error", ":">>
                  \o errStr \o <<"}">>)

\* the client's locals once the handler has returned
clientAtRest ==
    /\ cpc' = "idle"
    /\ op' = NoOp
    /\ req' = NoReq
    /\ bodyBytes' = <<>>
    /\ isRetry' = FALSE
    /\ wire' = <<>>
    /\ resps' = <<>>
    /\ result' = NoResult
    /\ heldAtStart' = ""

\* Run is at scanner.Scan, bridge.go:2041
scanReadyBroken == spc \in {"scan", "call"}

scanReady == spc = "scan"

\* Run, bridge.go:2053-2055: where the loop goes once handleMessage has
\* returned; its error is dropped
afterMessageBroken(h) == IF h.act = "none" THEN "eof" ELSE "scan"

afterMessage(h) == "scan"

\* Run from scanner.Scan to the call of handleMessage, bridge.go:2041-2051:
\* a line is read; when the context is done it is dropped and Run returns
\* ctx.Err(), an empty line is skipped, any other line is about to be
\* handed to handleMessage.  The context is not looked at again.
RunStep(L) ==
    /\ scanReady
    /\ nLines < MaxLines
    /\ \E l \in L :
        /\ nLines' = nLines + 1
        /\ readLog' = Append(readLog, l)
        /\ IF cancelled
           THEN /\ spc' = "cancelled"
                /\ UNCHANGED line
           ELSE /\ line' = l
                /\ spc' = IF l.form = "empty" THEN spc ELSE "handle"
    /\ UNCHANGED <<output, initialized, dispatched, clientVars>>
    /\ UNCHANGED <<cancelled, cls, calc, life, toolVars>>

\* handleMessage on the line read, bridge.go:2053 and 2067-2191, up to the
\* first HTTP call of a tool handler if there is one
Dispatch ==
    /\ spc = "handle"
    /\ LET h == handleMessage(line)
       IN /\ dispatched' = Append(dispatched, line)
          /\ CASE h.act = "none" ->
                 /\ spc' = afterMessage(h)
                 /\ UNCHANGED <<output, initialized, clientVars>>
            [] h.act = "frame" ->
                 /\ output' = Append(output, h.frame)
                 /\ spc' = afterMessage(h)
                 /\ UNCHANGED <<initialized, clientVars>>
            [] h.act = "initialized" ->
                 /\ initialized' = TRUE
                 /\ spc' = afterMessage(h)
                 /\ UNCHANGED <<output, clientVars>>
            [] h.act = "call" ->
                 LET c == handlers[h.name]
                     e == preflightError(c, h.args)
                 IN /\ UNCHANGED initialized
                    /\ IF c.h = "handleServiceInfo"
                       THEN /\ output' = Append(output, resultFrame(h.id, "content"))
                            /\ spc' = afterMessage(h)
                            /\ UNCHANGED clientVars
                       ELSE IF e # <<>>
                       THEN /\ output' = Append(output, toolErrorFrame(h.id, h.name, e))
                            /\ spc' = afterMessage(h)
                            /\ UNCHANGED clientVars
                       ELSE /\ callClient(c, h.args)
                            /\ spc' = "call"
                            /\ UNCHANGED <<output, nOps>>
    /\ UNCHANGED <<line, nLines, readLog, cancelled, cls, calc, life, toolVars>>

\* the handler returns to handleToolsCall, which writes the response,
\* bridge.go:2175-2191
ToolReturn ==
    /\ spc = "call"
    /\ cpc = "done"
    /\ LET h == handleMessage(line)
       IN output' = Append(output,
             IF result.state = "err"
             THEN toolErrorFrame(h.id, h.name,
                                 wrapPrefix(handlers[h.name].h) \o result.err)
             ELSE resultFrame(h.id, "content"))
    /\ clientAtRest
    /\ spc' = "scan"
    /\ UNCHANGED <<csrfToken, sessionCookies, nOps, line, nLines, readLog,
                   initialized, dispatched, cancelled, cls, calc, life, toolVars>>

\* scanner.Scan returns false at the end of the input, Run returns
EndOfInput ==
    /\ spc = "scan"
    /\ spc' = "eof"
    /\ UNCHANGED <<clientVars, line, nLines, readLog, output, initialized,
                   dispatched, cancelled, cls, calc, life, toolVars>>

----------------------------------------------------------------------------
(* The server with its client: lines arrive on stdin, the OData service    *)
(* answers the client's requests as it likes                               *)

\* the names the generated tools have
ToolName(operation) == formatToolName(operation, "Items")
FunctionTool == formatToolName("GetProducts", "")
InfoTool == formatToolName("odata_service_info", "")

FullKey == [k \in {"OrderID", "Pos"} |-> IF k = "OrderID" THEN Num(7) ELSE Num(2)]
PartKey == [k \in {"OrderID"} |-> Num(7)]
NameX == [k \in {"Name"} |-> Str("x")]
QtyOne == [k \in {"Qty"} |-> Num(1)]
MethodArg(m) == [k \in {"_method"} |-> Str(m)]

\* the tools/call parameters of the input
SParams ==
    {NoParams,
     [hasName |-> TRUE, name |-> ToolName("get"), hasArgs |-> FALSE,
      arguments |-> EmptyMap],
     CallParams("no_such_tool", EmptyMap),
     CallParams(InfoTool, EmptyMap),
     CallParams(ToolName("filter"), EmptyMap),
     CallParams(ToolName("count"), EmptyMap),
     CallParams(ToolName("get"), PartKey),
     CallParams(ToolName("get"), FullKey),
     CallParams(ToolName("create"), NameX),
     CallParams(ToolName("create"), NameX @@ QtyOne),
     CallParams(ToolName("update"), NameX),
     CallParams(ToolName("update"), FullKey @@ NameX),
     CallParams(ToolName("update"), FullKey @@ NameX @@ MethodArg(DELETE)),
     CallParams(ToolName("delete"), EmptyMap),
     CallParams(ToolName("delete"), FullKey),
     CallParams(FunctionTool, EmptyMap),
     CallParams(FunctionTool, [k \in {"category"} |-> Str("Food")])}

SLines ==
    {Line("empty", AbsentID, "", NoParams), Line("garbage", AbsentID, "", NoParams),
     Line("null", AbsentID, "", NoParams)}
    \cup {Line("badtypes", i, "ping", NoParams) : i \in {AbsentID, NumID(2)}}
    \cup {Line("request", i, m, NoParams) :
            i \in {AbsentID, NumID(1), NumID(2)},
            m \in {"initialize", "initialized", "tools/list", "ping", "resources/list"}}
    \cup {Line("request", NullID, "ping", NoParams)}
    \cup {Line("request", NumID(1), "tools/call", p) : p \in SParams}
    \cup {Line("request", AbsentID, "tools/call", CallParams(ToolName("delete"), FullKey))}

SFetchResponses ==
    {TransportError, Response(200, "", <<>>, PlainBody(<<>>)),
     Response(200, "ABC", <<>>, PlainBody(<<>>))}

SOrigResponses ==
    {TransportError, Response(200, "", <<>>, PlainBody(<<>>)),
     Response(403, "Required", <<>>, PlainBody(<<>>)),
     Response(404, "", <<>>, ErrorBody(<<"Resource", "not", "found">>))}

Init == InitClientVars /\ InitServerIdle /\ InitCls /\ InitBridge

SRun == RunStep(SLines)
SPrefetchReturn ==
    spc = "call" /\ PrefetchReturn(SFetchResponses) /\ UNCHANGED <<serverVars, cls, calc, life, toolVars>>
SSendReturn ==
    spc = "call" /\ SendReturn(SOrigResponses) /\ UNCHANGED <<serverVars, cls, calc, life, toolVars>>
SRefetchReturn ==
    spc = "call" /\ RefetchReturn(SFetchResponses) /\ UNCHANGED <<serverVars, cls, calc, life, toolVars>>

Next ==
    \/ SRun
    \/ Dispatch
    \/ SPrefetchReturn
    \/ SSendReturn
    \/ SRefetchReturn
    \/ ToolReturn
    \/ EndOfInput

Spec == Init /\ [][Next]_vars

----------------------------------------------------------------------------
(* Error classification on its own: an HTTP error status and a response    *)
(* body go through parseErrorFromBody, the handler's wrapping and          *)
(* categorizeError                                                         *)

EStatuses == {400, 401, 403, 404, 409, 422, 429, 500, 502, 503}

ETexts ==
    {<<>>, <<"Resource", "not", "found">>, <<"Bad", "Request">>, <<"Unauthorized">>,
     <<"Forbidden">>, <<"Not", "Found">>, <<"entity", "not", "found">>,
     <<"upstream", "said", "HTTP", "400">>, <<"CSRF", "token", "validation", "failed">>}

EHandlers ==
    {"handleEntityFilter", "handleEntityCount", "handleEntityGet", "handleFunctionCall"}

\* a read operation got a response with an error status; the handler wraps
\* the client's error and handleToolsCall classifies it
Classify ==
    /\ cls.phase = "none"
    /\ \E st \in EStatuses, t \in ETexts, j \in BOOLEAN, h \in EHandlers :
        LET body == IF j THEN ErrorBody(t) ELSE PlainBody(t)
            res == parseODataResponse(Response(st, "", <<>>, body))
            errStr == wrapPrefix(h) \o res.err
        IN cls' = [phase |-> "done", status |-> st, body |-> body, h |-> h,
                   errStr |-> errStr, code |-> categorizeError(errStr, "t").code]
    /\ UNCHANGED <<clientVars, serverVars, calc, life, toolVars>>

NextErr == Classify

SpecErr == Init /\ [][NextErr]_vars

----------------------------------------------------------------------------
(* The tool table on its own: a bridge is constructed over some schema,    *)
(* then tools are registered and removed and the list is asked for         *)

\* a schema with two entity sets and no function import
TwoSets ==
    [EntityTypes |->
        [Item |-> Metadata.EntityTypes.Item,
         Order |-> [KeyProperties |-> <<"ID">>,
                    Properties |-> <<Property("ID", TRUE, FALSE),
                                     Property("Note", FALSE, TRUE)>>]],
     EntitySets |->
        [Items |-> Metadata.EntitySets.Items,
         Orders |-> [EntityType |-> "Order", Creatable |-> FALSE, Updatable |-> TRUE,
                     Deletable |-> TRUE, Searchable |-> TRUE]],
     FunctionImports |-> <<>>]

\* a schema with an entity set whose entity type is not declared
Dangling ==
    [EntityTypes |-> [Item |-> Metadata.EntityTypes.Item],
     EntitySets |->
        [Items |-> Metadata.EntitySets.Items,
         Ghosts |-> [EntityType |-> "Ghost", Creatable |-> TRUE, Updatable |-> TRUE,
                     Deletable |-> TRUE, Searchable |-> FALSE]],
     FunctionImports |-> <<>>]

\* the skeleton getServiceDocument returns, client.go:796-803
EmptySchema == [EntityTypes |-> <<>>, EntitySets |-> <<>>, FunctionImports |-> <<>>]

Schemas == {Metadata, TwoSets, Dangling, EmptySchema}

\* a tool registered by hand
CustomTool(name) == Tool(name, {"x"}, <<>>)
CustomHandler(name) == closure(name, "custom", "", "")

RegNames == {"custom_tool", opToolName("get", "Items"), opToolName("count", "Items")}

InitTools == InitClientVars /\ InitServerIdle /\ InitCls /\ InitNoBridge

\* the values of --entities tried
AllowedChoices ==
    {<<>>,
     <<Chars("Items")>>,
     <<<<"O", "r", "d", "*">>>>,
     <<<<"N", "o", "n", "e">>, <<"*", "t", "e", "m", "s">>>>}

\* what the service answers to GET $metadata and to GET of the service
\* root: the status, 0 for a transport error, whether the body is a
\* document metadata.ParseMetadata accepts, and the schema it then yields
Answer(status, parses, doc) == [status |-> status, parses |-> parses, doc |-> doc]
MetadataAnswers ==
    {Answer(200, TRUE, md) : md \in Schemas}
    \cup {Answer(200, FALSE, EmptySchema), Answer(404, FALSE, EmptySchema)}
RootAnswers ==
    {Answer(200, FALSE, EmptySchema), Answer(404, FALSE, EmptySchema),
     Answer(0, FALSE, EmptySchema)}

\* getServiceDocument, client.go:776-806: an empty schema when the service
\* root answers 200
getServiceDocumentBroken(root) == [err |-> TRUE, md |-> <<>>]

getServiceDocument(root) ==
    IF root.status = 200
    THEN [err |-> FALSE, md |-> EmptySchema]
    ELSE [err |-> TRUE, md |-> <<>>]

\* GetMetadata, client.go:269-300
GetMetadata(meta, root) ==
    IF meta.status # 200 THEN [err |-> TRUE, md |-> <<>>]
    ELSE IF ~meta.parses THEN getServiceDocument(root)
    ELSE [err |-> FALSE, md |-> meta.doc]

\* whether the service was asked for its service document, and how it
\* answered
fallbackTaken(meta, root) ==
    IF meta.status = 200 /\ ~meta.parses
    THEN IF root.status = 200 THEN "served" ELSE "refused"
    ELSE "none"

\* NewODataMCPBridge, bridge.go:844-872, with initialize and generateTools:
\* the server is created, the schema is fetched and its tools are
\* registered; when the schema cannot be had the bridge is not built
NewBridgeFrom(answers) ==
    /\ bridge.phase = "none"
    /\ \E verbose \in BOOLEAN, sortTools \in BOOLEAN, allowed \in AllowedChoices,
          meta \in answers, root \in RootAnswers :
        LET got == GetMetadata(meta, root)
        IN IF got.err
           THEN /\ bridge' = [NoBridge EXCEPT !.phase = "failed", !.Verbose = verbose,
                                              !.SortTools = sortTools,
                                              !.AllowedEntities = allowed,
                                              !.fallback = fallbackTaken(meta, root)]
                /\ UNCHANGED <<sTools, sToolOrder, sHandlers, stdout>>
           ELSE \E setOrder \in Perms(DOMAIN got.md.EntitySets),
                   fnOrder \in Perms(DOMAIN got.md.FunctionImports) :
                    LET r == registerAll(EmptyRegistry,
                                         generateToolsFor(got.md, setOrder, fnOrder, allowed))
                    IN /\ bridge' = [Bridge(verbose, sortTools, got.md)
                                        EXCEPT !.AllowedEntities = allowed,
                                               !.fallback = fallbackTaken(meta, root)]
                       /\ sTools' = r.tools
                       /\ sToolOrder' = r.order
                       /\ sHandlers' = r.handlers
                       /\ stdout' = stdout \o generateToolsPrintsFor(got.md, setOrder,
                                                                      verbose, allowed)
    /\ UNCHANGED <<listed, regCalls, clientVars, serverVars, cls, calc, life>>

NewODataMCPBridge == NewBridgeFrom(MetadataAnswers)

\* a call of Server.AddTool
TAddTool ==
    /\ bridge.phase = "ready"
    /\ Len(regCalls) < MaxRegs
    /\ \E n \in RegNames :
        LET r == AddTool(Registry(sTools, sToolOrder, sHandlers),
                         CustomTool(n), CustomHandler(n))
        IN /\ sTools' = r.tools
           /\ sToolOrder' = r.order
           /\ sHandlers' = r.handlers
           /\ regCalls' = Append(regCalls, [op |-> "AddTool", name |-> n])
    /\ UNCHANGED <<bridge, stdout, listed, clientVars, serverVars, cls, calc, life>>

\* a call of Server.RemoveTool
TRemoveTool ==
    /\ bridge.phase = "ready"
    /\ Len(regCalls) < MaxRegs
    /\ \E n \in RegNames :
        LET r == RemoveTool(Registry(sTools, sToolOrder, sHandlers), n)
        IN /\ sTools' = r.tools
           /\ sToolOrder' = r.order
           /\ sHandlers' = r.handlers
           /\ regCalls' = Append(regCalls, [op |-> "RemoveTool", name |-> n])
    /\ UNCHANGED <<bridge, stdout, listed, clientVars, serverVars, cls, calc, life>>

\* a tools/list request, first part, bridge.go:2138-2146: the list is
\* copied under the read lock and the lock is released
TToolsList ==
    /\ bridge.phase = "ready"
    /\ ~listed.pending
    /\ listed' = [listed EXCEPT
                    !.pending = TRUE,
                    !.copy = handleToolsList(Registry(sTools, sToolOrder, sHandlers))]
    /\ UNCHANGED <<bridge, sTools, sToolOrder, sHandlers, stdout, regCalls,
                   clientVars, serverVars, cls, calc, life>>

\* the request's second part, bridge.go:2148-2152: the response is built
\* from the copy and written; the table may have changed since the copy
TListWrite ==
    /\ listed.pending
    /\ listed' = [done |-> TRUE, names |-> listed.copy, pending |-> FALSE, copy |-> <<>>]
    /\ UNCHANGED <<bridge, sTools, sToolOrder, sHandlers, stdout, regCalls,
                   clientVars, serverVars, cls, calc, life>>

NextTools ==
    \/ NewODataMCPBridge
    \/ TAddTool
    \/ TRemoveTool
    \/ TToolsList
    \/ TListWrite

SpecTools == InitTools /\ [][NextTools]_vars

\* a schema with a function import that has the name of an operation on one
\* of its entity sets
Clash ==
    [EntityTypes |-> [Item |-> Metadata.EntityTypes.Item],
     EntitySets |-> [Items |-> Metadata.EntitySets.Items],
     FunctionImports |->
        [k \in {"filter_Items"} |-> [HTTPMethod |-> "GET", Parameters |-> <<>>]]]

\* NewODataMCPBridge against a service that may have that schema
NewBridgeAnyNames == NewBridgeFrom(MetadataAnswers \cup {Answer(200, TRUE, Clash)})

NextNames ==
    \/ NewBridgeAnyNames
    \/ TAddTool
    \/ TRemoveTool
    \/ TToolsList
    \/ TListWrite

SpecNames == InitTools /\ [][NextNames]_vars

----------------------------------------------------------------------------
(* The server under a shutdown signal: runBridge calls Stop when SIGINT or *)
(* SIGTERM arrives and returns, which ends the process                     *)

\* httpClient.Do of a request whose context is done
CancelledError ==
    [err |-> TRUE, status |-> 0, hdr |-> "", cookies |-> <<>>,
     body |-> PlainBody(<<"context", "canceled">>)]

\* the answers an HTTP call can get: once the context is done the call may
\* be aborted
abortable(R) == IF cancelled THEN R \cup {CancelledError} ELSE R

StopLines ==
    {Line("garbage", AbsentID, "", NoParams),
     Line("request", NumID(1), "ping", NoParams),
     Line("request", NumID(2), "tools/call", CallParams(ToolName("get"), FullKey)),
     Line("request", NumID(2), "tools/call", CallParams(ToolName("create"), NameX))}

\* Server.Stop, bridge.go:2062-2064, called by ODataMCPBridge.Stop on a
\* signal: the context is cancelled
Stop ==
    /\ ~cancelled
    /\ spc \in {"scan", "handle", "call"}
    /\ cancelled' = TRUE
    /\ UNCHANGED <<clientVars, spc, line, nLines, readLog, output, initialized,
                   dispatched, cls, calc, life, toolVars>>

\* runBridge returns after Stop and the process ends, whatever Run is doing
Exit ==
    /\ cancelled
    /\ spc # "exit"
    /\ spc' = "exit"
    /\ UNCHANGED <<clientVars, line, nLines, readLog, output, initialized,
                   dispatched, cancelled, cls, calc, life, toolVars>>

StopRun == RunStep(StopLines)
StopPrefetchReturn ==
    /\ spc = "call"
    /\ PrefetchReturn(abortable(SFetchResponses))
    /\ UNCHANGED <<serverVars, cls, calc, life, toolVars>>
StopSendReturn ==
    /\ spc = "call"
    /\ SendReturn(abortable(SOrigResponses))
    /\ UNCHANGED <<serverVars, cls, calc, life, toolVars>>
StopRefetchReturn ==
    /\ spc = "call"
    /\ RefetchReturn(abortable(SFetchResponses))
    /\ UNCHANGED <<serverVars, cls, calc, life, toolVars>>

NextStop ==
    \/ StopRun
    \/ Dispatch
    \/ StopPrefetchReturn
    \/ StopSendReturn
    \/ StopRefetchReturn
    \/ ToolReturn
    \/ EndOfInput
    \/ Stop
    \/ Exit

SpecStop == Init /\ [][NextStop]_vars

----------------------------------------------------------------------------
(* Response parsing on its own: parseODataResponse on the body of a          *)
(* successful response, client.go:595-676                                   *)

\* JSON values besides Str and Num: arrays and objects; Absent stands for a
\* field that was not set
Arr(items) == [t |-> "array", v |-> items]
Obj(members) == [t |-> "object", v |-> members]
Absent == [t |-> "absent", v |-> <<>>]

\* models.ODataResponse
Parsed(value, count, context, nextLink) ==
    [err |-> FALSE, Value |-> value, Count |-> count, Context |-> context,
     NextLink |-> nextLink]
ParseFailure(text) == [err |-> TRUE, text |-> text]

\* the member of a decoded object, Absent when the object has none of the name
member(o, name) == IF name \in DOMAIN o.v THEN o.v[name] ELSE Absent

\* fmt.Sscanf(s, "%d", &count) on a string of decimal digits: the number;
\* on a string that starts with no digit count keeps its zero
sscanCount(str) ==
    IF \E n \in 0..MaxCount : ToString(n) = str
    THEN CHOOSE n \in 0..MaxCount : ToString(n) = str
    ELSE 0

\* client.go:646-669: the payload is a collection
parseCollection(d) ==
    LET results == member(d, "results")
        count == member(d, "__count")
    IN IF results.t # "array"
       THEN ParseFailure(<<"failed", "to", "parse", "collection", "response">>)
       ELSE IF count.t \notin {"absent", "string"}
       THEN ParseFailure(<<"failed", "to", "parse", "collection", "response">>)
       ELSE Parsed(Arr(results.v),
                   IF count.t = "string" /\ count.v # ""
                   THEN Num(sscanCount(count.v)) ELSE Absent,
                   Absent, Absent)

\* client.go:632-677: the body decoded into the wrapper; without a "d"
\* member the response stays empty
parseWrapped(body) ==
    LET d == member(body, "d")
    IN IF d.t = "absent" THEN Parsed(Absent, Absent, Absent, Absent)
       ELSE IF d.t = "object" /\ "results" \in DOMAIN d.v THEN parseCollection(d)
       ELSE Parsed(d, Absent, Absent, Absent)

\* client.go:622-629: json.Unmarshal of the body into models.ODataResponse
parseDirect(body) ==
    IF body.t # "object"
    THEN ParseFailure(<<"failed", "to", "parse", "OData", "response">>)
    ELSE Parsed(member(body, "value"), member(body, "@odata.count"),
                member(body, "@odata.context"), member(body, "@odata.nextLink"))

\* parseODataResponse for a status below 400, client.go:605-683: the
\* wrapper struct decodes every JSON object, with or without a "d" member,
\* so the direct parse is tried only on a body that is no object
parseSuccess(body) ==
    IF body.t = "empty" THEN Parsed(Absent, Absent, Absent, Absent)
    ELSE IF body.t = "object" THEN parseWrapped(body)
    ELSE parseDirect(body)

\* the bodies tried
Entity(n) == Obj([k \in {"ID"} |-> Num(n)])
EntityLists == UNION {[1..n -> {Entity(1), Entity(2)}] : n \in 0..MaxItems}
only(name, x) == IF x.t = "absent" THEN <<>> ELSE [k \in {name} |-> x]

V2Payloads ==
    {Obj(only("results", r) @@ only("__count", c) @@ only("ID", i)) :
        r \in {Arr(l) : l \in EntityLists} \cup {Str("x"), Absent},
        c \in {Absent, Str("many"), Str(""), Num(2)}
              \cup {Str(ToString(n)) : n \in 0..MaxCount},
        i \in {Num(1)}}
    \cup {Arr(l) : l \in EntityLists}
    \cup {Str("x")}

V4Bodies ==
    {Obj(only("value", v) @@ only("@odata.count", c) @@ only("@odata.context", x)
         @@ only("@odata.nextLink", n) @@ only("ID", i)) :
        v \in {Arr(l) : l \in EntityLists} \cup {Absent},
        c \in {Absent, Num(2)},
        x \in {Absent, Str("ctx")},
        n \in {Absent, Str("next")},
        i \in {Num(1)}}

ParseBodies ==
    {[t |-> "empty", v |-> <<>>], [t |-> "invalid", v |-> <<>>]}
    \cup {Obj([k \in {"d"} |-> p]) : p \in V2Payloads}
    \cup V4Bodies
    \cup {Arr(l) : l \in EntityLists}

\* a response with status 200 and the body chosen is parsed
ParseResponse ==
    /\ calc.fn = "none"
    /\ \E body \in ParseBodies :
        calc' = [fn |-> "parseODataResponse", in |-> body, out |-> parseSuccess(body)]
    /\ UNCHANGED <<clientVars, serverVars, cls, life, toolVars>>

----------------------------------------------------------------------------
(* Numeric conversion on its own, utils/numeric.go *)

\* Go values besides strings, numbers, maps and slices
Bool(b) == [t |-> "bool", v |-> b]
Nil == [t |-> "nil", v |-> <<>>]

UpperLetters ==
    <<"A", "B", "C", "D", "E", "F", "G", "H", "I", "J", "K", "L", "M",
      "N", "O", "P", "Q", "R", "S", "T", "U", "V", "W", "X", "Y", "Z">>
LowerLetters ==
    <<"a", "b", "c", "d", "e", "f", "g", "h", "i", "j", "k", "l", "m",
      "n", "o", "p", "q", "r", "s", "t", "u", "v", "w", "x", "y", "z">>

\* strings.ToLower and strings.ToUpper on the bytes of a name
LowerChars(q) ==
    [i \in 1..Len(q) |->
        IF \E j \in 1..Len(UpperLetters) : UpperLetters[j] = q[i]
        THEN LowerLetters[CHOOSE j \in 1..Len(UpperLetters) : UpperLetters[j] = q[i]]
        ELSE q[i]]
UpperChars(q) ==
    [i \in 1..Len(q) |->
        IF \E j \in 1..Len(LowerLetters) : LowerLetters[j] = q[i]
        THEN UpperLetters[CHOOSE j \in 1..Len(LowerLetters) : LowerLetters[j] = q[i]]
        ELSE q[i]]

\* decimalPatterns of IsLikelyDecimalField in lower case, numeric.go:109-128
decimalPatterns ==
    {<<"a", "m", "o", "u", "n", "t">>, <<"p", "r", "i", "c", "e">>,
     <<"c", "o", "s", "t">>, <<"v", "a", "l", "u", "e">>,
     <<"q", "u", "a", "n", "t", "i", "t", "y">>, <<"q", "t", "y">>,
     <<"r", "a", "t", "e">>, <<"p", "e", "r", "c", "e", "n", "t">>,
     <<"d", "i", "s", "c", "o", "u", "n", "t">>, <<"t", "a", "x">>,
     <<"t", "o", "t", "a", "l">>, <<"s", "u", "m">>,
     <<"b", "a", "l", "a", "n", "c", "e">>, <<"w", "e", "i", "g", "h", "t">>,
     <<"v", "o", "l", "u", "m", "e">>, <<"n", "e", "t", "a", "m", "o", "u", "n", "t">>,
     <<"g", "r", "o", "s", "s", "a", "m", "o", "u", "n", "t">>,
     <<"t", "a", "x", "a", "m", "o", "u", "n", "t">>,
     <<"u", "n", "i", "t", "p", "r", "i", "c", "e">>,
     <<"e", "x", "t", "e", "n", "d", "e", "d", "p", "r", "i", "c", "e">>,
     <<"o", "r", "d", "e", "r", "q", "u", "a", "n", "t", "i", "t", "y">>,
     <<"d", "e", "l", "i", "v", "e", "r", "e", "d", "q", "u", "a", "n", "t", "i", "t", "y">>}

\* numericSuffixes, numeric.go:138
numericSuffixes ==
    {<<"_", "a", "m", "t">>, <<"_", "a", "m", "o", "u", "n", "t">>,
     <<"_", "q", "t", "y">>, <<"_", "q", "u", "a", "n", "t", "i", "t", "y">>,
     <<"_", "p", "r", "i", "c", "e">>, <<"_", "c", "o", "s", "t">>,
     <<"_", "v", "a", "l", "u", "e">>, <<"_", "t", "o", "t", "a", "l">>}

\* IsLikelyDecimalField, numeric.go:107-146
IsLikelyDecimalField(fieldName) ==
    LET fieldLower == LowerChars(Chars(fieldName))
    IN \/ \E pattern \in decimalPatterns : Contains(fieldLower, pattern)
       \/ \E suffix \in numericSuffixes : HasSuffix(fieldLower, suffix)

\* the order fmt prints the keys of a map in
KeyOrder == <<"ID", "Info", "Name", "Net_amt", "Qty">>

RECURSIVE JoinWith(_, _)
JoinWith(parts, sep) ==
    IF parts = <<>> THEN ""
    ELSE IF Len(parts) = 1 THEN parts[1]
    ELSE parts[1] \o sep \o JoinWith(Tail(parts), sep)

\* fmt.Sprintf("%v", value)
RECURSIVE FormatV(_)
FormatV(x) ==
    CASE x.t = "string" -> x.v
      [] x.t = "number" -> ToString(x.v)
      [] x.t = "bool" -> IF x.v THEN "true" ELSE "false"
      [] x.t = "nil" -> "<nil>"
      [] x.t = "array" -> "[" \o JoinWith([i \in 1..Len(x.v) |-> FormatV(x.v[i])], " ") \o "]"
      [] x.t = "object" ->
            LET ks == SelectSeq(KeyOrder, LAMBDA k : k \in DOMAIN x.v)
            IN "map[" \o JoinWith([i \in 1..Len(ks) |-> ks[i] \o ":" \o FormatV(x.v[ks[i]])],
                                  " ") \o "]"

\* ConvertToString, numeric.go:63-104: nil gives the empty string, a string
\* itself, a whole number its digits, every other value its %v form
ConvertToStringBroken(value) == Str("'" \o FormatV(value) \o "'")

ConvertToString(value) ==
    IF value.t = "nil" THEN Str("")
    ELSE IF value.t = "string" THEN value
    ELSE Str(FormatV(value))

\* decimalFieldSet of ConvertNumericFieldsToStrings, numeric.go:15-21: each
\* declared field as written, in lower case and in upper case
inDecimalFieldSet(key, decimalFields) ==
    \E i \in 1..Len(decimalFields) :
        Chars(key) \in {Chars(decimalFields[i]), LowerChars(Chars(decimalFields[i])),
                        UpperChars(Chars(decimalFields[i]))}

\* ConvertNumericFieldsToStrings and ConvertNumericValue, numeric.go:11-60
RECURSIVE ConvertNumericFieldsToStrings(_, _)
RECURSIVE ConvertNumericValue(_, _)
ConvertNumericFieldsToStrings(data, decimalFields) ==
    [key \in DOMAIN data |->
        IF inDecimalFieldSet(key, decimalFields) \/ IsLikelyDecimalField(key)
        THEN ConvertToString(data[key])
        ELSE ConvertNumericValue(data[key], decimalFields)]

ConvertNumericValue(value, decimalFields) ==
    CASE value.t = "object" -> Obj(ConvertNumericFieldsToStrings(value.v, decimalFields))
      [] value.t = "array" ->
            Arr([i \in 1..Len(value.v) |->
                    IF value.v[i].t = "object"
                    THEN Obj(ConvertNumericFieldsToStrings(value.v[i].v, decimalFields))
                    ELSE ConvertNumericValue(value.v[i], decimalFields)])
      [] OTHER -> value

\* ConvertEntityDataForOData, numeric.go:150-192
RECURSIVE ConvertEntityDataForOData(_)
ConvertEntityDataForOData(data) ==
    [key \in DOMAIN data |->
        IF IsLikelyDecimalField(key)
        THEN IF data[key].t = "number" THEN ConvertToString(data[key]) ELSE data[key]
        ELSE CASE data[key].t = "object" -> Obj(ConvertEntityDataForOData(data[key].v))
               [] data[key].t = "array" ->
                     Arr([i \in 1..Len(data[key].v) |->
                             IF data[key].v[i].t = "object"
                             THEN Obj(ConvertEntityDataForOData(data[key].v[i].v))
                             ELSE data[key].v[i]])
               [] OTHER -> data[key]]

\* the values a field of the input holds
Leaves == {Str("x"), Str("7"), Num(1), Num(25), Bool(TRUE), Nil}
OrderLine == Obj([k \in {"ID", "Qty"} |-> IF k = "ID" THEN Str("i") ELSE Num(5)])
Nested ==
    {OrderLine,
     Obj([k \in {"Info"} |-> OrderLine]),
     Arr(<<OrderLine>>),
     Arr(<<Num(3), Str("x")>>),
     Arr(<<Arr(<<OrderLine>>)>>)}

NumericInputs == [{"Info", "Name", "Qty"} -> Leaves \cup Nested]
DecimalFieldLists == {<<>>, <<"Name">>, <<"name">>}

\* ConvertNumericFieldsToStrings is applied to a map, and to its own result
ConvertFields ==
    /\ calc.fn = "none"
    /\ \E data \in NumericInputs, decimalFields \in DecimalFieldLists :
        LET out == ConvertNumericFieldsToStrings(data, decimalFields)
        IN calc' = [fn |-> "ConvertNumericFieldsToStrings", in |-> data,
                    decimalFields |-> decimalFields, out |-> out,
                    again |-> ConvertNumericFieldsToStrings(out, decimalFields)]
    /\ UNCHANGED <<clientVars, serverVars, cls, life, toolVars>>

\* ConvertEntityDataForOData is applied to a map, and to its own result
ConvertEntity ==
    /\ calc.fn = "none"
    /\ \E data \in NumericInputs :
        LET out == ConvertEntityDataForOData(data)
        IN calc' = [fn |-> "ConvertEntityDataForOData", in |-> data,
                    decimalFields |-> <<>>, out |-> out,
                    again |-> ConvertEntityDataForOData(out)]
    /\ UNCHANGED <<clientVars, serverVars, cls, life, toolVars>>

----------------------------------------------------------------------------
(* Legacy dates, test_date_handling.go:99-146. A legacy date is modelled by *)
(* the digits between "/Date(" and ")/", an ISO-8601 instant by its fields  *)

\* strconv.ParseInt on a string of decimal digits
RECURSIVE ParseInt(_)
ParseInt(digits) ==
    IF digits = <<>> THEN 0
    ELSE 10 * ParseInt(SubSeq(digits, 1, Len(digits) - 1))
         + (CHOOSE d \in 0..9 : ToString(d) = digits[Len(digits)])

\* fmt.Sprintf("%d", n): the digits of n
FormatD(n) ==
    [i \in 1..NumDigits(n) |-> ToString((n \div Pow10(NumDigits(n) - i)) % 10)]

\* the date of a day counted from 1970-01-01, as time.Time computes it
civilFromDays(days) ==
    LET z == days + 719468
        era == z \div 146097
        doe == z - era * 146097
        yoe == (doe - doe \div 1460 + doe \div 36524 - doe \div 146096) \div 365
        doy == doe - (365 * yoe + yoe \div 4 - yoe \div 100)
        mp == (5 * doy + 2) \div 153
        d == doy - (153 * mp + 2) \div 5 + 1
        m == IF mp < 10 THEN mp + 3 ELSE mp - 9
    IN [Y |-> yoe + era * 400 + (IF m <= 2 THEN 1 ELSE 0), M |-> m, D |-> d]

daysFromCivil(date) ==
    LET y == date.Y - (IF date.M <= 2 THEN 1 ELSE 0)
        era == y \div 400
        yoe == y - era * 400
        doy == (153 * (IF date.M > 2 THEN date.M - 3 ELSE date.M + 9) + 2) \div 5 + date.D - 1
        doe == yoe * 365 + yoe \div 4 - yoe \div 100 + doy
    IN era * 146097 + doe - 719468

\* time.UnixMilli(ms).UTC().Format(time.RFC3339): the layout has no
\* fraction of a second
formatRFC3339Broken(ms) ==
    LET sec == ms \div 1000
    IN [date |-> civilFromDays(sec \div 86400), h |-> (sec % 86400) \div 3600,
        m |-> (sec % 3600) \div 60, s |-> sec % 60, frac |-> ms % 1000]

formatRFC3339(ms) ==
    LET sec == ms \div 1000
    IN [date |-> civilFromDays(sec \div 86400), h |-> (sec % 86400) \div 3600,
        m |-> (sec % 3600) \div 60, s |-> sec % 60, frac |-> 0]

\* time.Parse(time.RFC3339, iso) followed by UnixMilli
unixMilli(iso) ==
    ((daysFromCivil(iso.date) * 24 + iso.h) * 3600 + iso.m * 60 + iso.s) * 1000 + iso.frac

\* convertODataLegacyToISO, test_date_handling.go:138-146
convertODataLegacyToISO(legacy) == formatRFC3339(ParseInt(legacy))

\* convertISOToODataLegacy, test_date_handling.go:124-136
convertISOToODataLegacy(iso) == FormatD(unixMilli(iso))

\* the legacy dates tried: every string of up to MaxDigits of these digits
LegacyDates == UNION {[1..n -> {"0", "1", "6", "9"}] : n \in 1..MaxDigits}

\* a legacy date is converted to ISO-8601 and the result back
ConvertDate ==
    /\ calc.fn = "none"
    /\ \E legacy \in LegacyDates :
        LET iso == convertODataLegacyToISO(legacy)
        IN calc' = [fn |-> "convertODataLegacyToISO", in |-> legacy, out |-> iso,
                    again |-> convertISOToODataLegacy(iso)]
    /\ UNCHANGED <<clientVars, serverVars, cls, life, toolVars>>

\* the numeric key values tried: the powers of ten up to 10^MaxKeyDigits,
\* their neighbours below, and some small numbers
KeyNumbers ==
    {0, 5, 42}
    \cup {Pow10(k) : k \in 1..MaxKeyDigits}
    \cup {Pow10(k) - 1 : k \in 1..MaxKeyDigits}
    \cup {15 * Pow10(k) : k \in 1..(MaxKeyDigits - 1)}

\* GetEntity up to the endpoint, client.go:345-346, for an entity type with
\* the single key ID, whose value arrives as a JSON number (a float64)
FormatKey ==
    /\ calc.fn = "none"
    /\ \E n \in KeyNumbers :
        \E pred \in buildKeyPredicate([k \in {"ID"} |-> Num(n)]) :
            calc' = [fn |-> "buildKeyPredicate", in |-> n,
                     out |-> entityEndpoint("Products", pred)]
    /\ UNCHANGED <<clientVars, serverVars, cls, life, toolVars>>

NextCalc ==
    \/ ParseResponse
    \/ ConvertFields
    \/ ConvertEntity
    \/ ConvertDate
    \/ FormatKey

SpecCalc == Init /\ [][NextCalc]_vars

----------------------------------------------------------------------------
(* Run and Stop of the bridge, bridge.go:1516-1541. Both work under b.mu,  *)
(* so each is one step up to the point where Run enters Server.Run; the   *)
(* loop of Server.Run is counted here and followed line by line above     *)

called(l, what) == [l EXCEPT !.calls = Append(l.calls, what)]

\* ODataMCPBridge.Run, bridge.go:1516-1527, up to the call of Server.Run
RunBridge(l) ==
    IF l.running THEN l
    ELSE [l EXCEPT !.running = TRUE, !.loops = l.loops + 1]

\* ODataMCPBridge.Stop, bridge.go:1530-1541: closing a closed channel panics
StopBridge(l) ==
    IF ~l.running THEN l
    ELSE IF l.closed
         THEN [l EXCEPT !.running = FALSE, !.panicked = TRUE]
         ELSE [l EXCEPT !.running = FALSE, !.closed = TRUE]

\* a goroutine calls Run
LifeRun ==
    /\ ~life.panicked
    /\ Len(life.calls) < MaxCalls
    /\ life' = called(RunBridge(life), "Run")
    /\ UNCHANGED <<clientVars, serverVars, cls, calc, toolVars>>

\* a goroutine calls Stop; Server.Stop cancels the server's context when the
\* close did not panic
LifeStop ==
    /\ ~life.panicked
    /\ Len(life.calls) < MaxCalls
    /\ life' = called(StopBridge(life), "Stop")
    /\ cancelled' = (cancelled \/ (life.running /\ ~life.closed))
    /\ UNCHANGED <<clientVars, spc, line, nLines, readLog, output, initialized,
                   dispatched, cls, calc, toolVars>>

\* Server.Run returns to Run, at the end of the input or at the first line
\* read after Stop (bridge.go:2040-2058); b.running is left as it is
LifeReturn ==
    /\ ~life.panicked
    /\ Len(life.calls) < MaxCalls
    /\ life.loops > 0
    /\ life' = called([life EXCEPT !.loops = life.loops - 1], "return")
    /\ UNCHANGED <<clientVars, serverVars, cls, calc, toolVars>>

NextLife ==
    \/ LifeRun
    \/ LifeStop
    \/ LifeReturn

SpecLife == Init /\ [][NextLife]_vars

----------------------------------------------------------------------------
(* Properties of the client *)

\* positions on the wire of the original request and of the token fetches
origIdx == {i \in 1..Len(wire) : wire[i].kind = "orig"}
fetchIdx == {i \in 1..Len(wire) : wire[i].kind = "fetch"}
answered(i) == i <= Len(resps)

\* the CSRF signal: a 403 whose body mentions csrf in any case, or whose
\* X-CSRF-Token header is Required
csrfSignal(resp) ==
    /\ ~resp.err
    /\ resp.status = 403
    /\ \/ \E i \in 1..Len(resp.body.text) :
             resp.body.text[i] \in {"csrf", "CSRF", "Csrf"}
       \/ resp.hdr = "Required"

\* the fetch answered with a token the client can use
gaveToken(resp) == ~resp.err /\ resp.hdr \notin {"", CSRFTokenFetch}

\* the operation in progress is one of the modifying ones and its first
\* send was answered with the CSRF signal
firstSendRefused ==
    \E i \in origIdx :
        /\ \A j \in origIdx : i <= j
        /\ wire[i].method \in modifyingMethods
        /\ answered(i)
        /\ csrfSignal(resps[i])

\* C1 as stated: a modifying request answered with 403 and a CSRF signal is
\* always followed by a token fetch and exactly one re-send, and the request
\* is never sent more than twice.
C1_AlwaysResent ==
    /\ Cardinality(origIdx) <= 2
    /\ (cpc = "done" /\ firstSendRefused) => Cardinality(origIdx) = 2

\* C1, amended: after a 403 with a CSRF signal on the first send of a
\* modifying request the client drops its token and fetches a new one; when
\* that fetch yields a token the request is re-sent exactly once, carrying
\* it, and when it does not the operation fails without a re-send.  The
\* request is never sent more than twice in one operation.
C1_RetryOnce ==
    /\ Cardinality(origIdx) <= 2
    /\ \A i \in origIdx :
         (/\ \A j \in origIdx : i <= j
          /\ wire[i].method \in modifyingMethods
          /\ answered(i)
          /\ csrfSignal(resps[i]))
         => /\ Len(wire) > i
            /\ wire[i + 1].kind = "fetch"
            /\ answered(i + 1) =>
                 IF gaveToken(resps[i + 1])
                 THEN /\ Len(wire) = i + 2
                      /\ wire[i + 2].kind = "orig"
                      /\ wire[i + 2].token = resps[i + 1].hdr
                 ELSE /\ Len(wire) = i + 1
                      /\ cpc = "done"
                      /\ result.state = "err"
                      /\ csrfToken = ""

\* the retry was itself answered with 403 and a CSRF signal, and the
\* operation ended there
C1_Witness ==
    /\ cpc = "done"
    /\ firstSendRefused
    /\ Cardinality(origIdx) = 2
    /\ Len(resps) = Len(wire)
    /\ csrfSignal(resps[Len(resps)])

\* the service of scenario 5: every token fetch returns ABC, the first POST
\* is answered 403 with X-CSRF-Token: Required, a second POST is accepted
C2_Scenario ==
    /\ cpc = "done"
    /\ op.name = "CreateEntity"
    /\ Len(resps) = Len(wire)
    /\ \A i \in fetchIdx : ~resps[i].err /\ resps[i].hdr = "ABC"
    /\ \A i \in origIdx :
         IF \A j \in origIdx : i <= j
         THEN ~resps[i].err /\ resps[i].status = 403 /\ resps[i].hdr = "Required"
         ELSE ~resps[i].err /\ resps[i].status = 201

postsSent == {i \in origIdx : wire[i].method = POST}

\* C2 as stated: against that service a create issues exactly one Fetch GET
\* and exactly two POSTs, the second POST carrying the token ABC.
C2_OneFetch ==
    C2_Scenario =>
        /\ Cardinality(fetchIdx) = 1
        /\ Cardinality(postsSent) = 2
        /\ wire[Len(wire)].method = POST /\ wire[Len(wire)].token = "ABC"

\* C2, amended: a client that holds no token when the create starts issues,
\* against that service, exactly two Fetch GETs (one before the first POST,
\* one after the 403) and exactly two POSTs, and the second POST carries the
\* token ABC.
C2_TwoFetches ==
    (C2_Scenario /\ heldAtStart = "") =>
        /\ Cardinality(fetchIdx) = 2
        /\ Cardinality(postsSent) = 2
        /\ wire[1].kind = "fetch" /\ wire[3].kind = "fetch"
        /\ wire[Len(wire)].method = POST /\ wire[Len(wire)].token = "ABC"

\* a client without a token went through the whole scenario
C2_Witness == C2_Scenario /\ heldAtStart = "" /\ cpc = "done" /\ result.state = "ok"

\* C3: when the token fetch that precedes a modifying request fails or
\* returns no token, the request is sent all the same and carries no
\* X-CSRF-Token header, whatever token the client held before.
C3_TokenlessAfterFailedFetch ==
    (/\ Len(wire) >= 1
     /\ wire[1].kind = "fetch"
     /\ answered(1)
     /\ resps[1].err \/ resps[1].hdr = ""
     /\ op.method \in modifyingMethods)
    => /\ Len(wire) >= 2
       /\ wire[2].kind = "orig"
       /\ wire[2].method = op.method
       /\ wire[2].token = ""

\* a client that held a token from an earlier operation sent the request
\* after a failed fetch
C3_Witness ==
    /\ heldAtStart # ""
    /\ Len(wire) >= 2
    /\ wire[1].kind = "fetch"
    /\ resps[1].err \/ resps[1].hdr = ""
    /\ wire[2].kind = "orig"
    /\ wire[2].method \in modifyingMethods

\* C4: every send of the original request within one operation has the same
\* method, the same URL and the same body bytes as the first.
C4_RetrySameBytes ==
    \A i, j \in origIdx :
        /\ wire[i].method = wire[j].method
        /\ wire[i].url = wire[j].url
        /\ wire[i].body = wire[j].body

\* a request with a body was sent a second time
C4_Witness ==
    /\ Cardinality(origIdx) = 2
    /\ \A i \in origIdx : wire[i].body # <<>>
    /\ op.hasBody

\* C5: a modifying operation called while the client holds a token sends its
\* request with that token without fetching first; a fetch is issued only
\* when no token is held or after a CSRF failure.
C5_TokenReused ==
    \A i \in fetchIdx :
        \/ i = 1 /\ heldAtStart = ""
        \/ i > 1 /\ answered(i - 1) /\ csrfSignal(resps[i - 1])

----------------------------------------------------------------------------
(* Properties of the server *)

\* the step hands the line read to handleMessage
handlesLine == spc = "handle" /\ Len(dispatched') = Len(dispatched) + 1

\* the step writes exactly one frame
writesOne == Len(output') = Len(output) + 1 /\ SubSeq(output', 1, Len(output)) = output

lastFrame == output'[Len(output')]

\* a line the server owes a response: a JSON object other than the
\* initialized notification
owed(l) ==
    \/ l.form \in {"badtypes", "null"}
    \/ l.form = "request" /\ l.method # "initialized"

owedLines == SelectSeq(readLog, owed)

\* C6: lines are handled strictly one at a time: no line is read while a
\* tool call is in progress, at most one owed response is outstanding, and
\* the frames on stdout answer the owed lines in the order they were read
\* (a frame carries the id of its line when the line has one).
C6_OneAtATime ==
    /\ Len(output) <= Len(owedLines)
    /\ Len(owedLines) - Len(output) <= 1
    /\ \A i \in 1..Len(output) :
          owedLines[i].id.k = "num" => output[i].id = owedLines[i].id
    /\ spc \in {"handle", "call"} => /\ readLog # <<>>
                                   /\ line = readLog[Len(readLog)]
    /\ spc = "handle" => /\ cpc = "idle"
                         /\ Len(output) = Len(owedLines) - (IF owed(line) THEN 1 ELSE 0)
    /\ spc = "call" => Len(output) = Len(owedLines) - 1

\* a slow tool call with id 1 was followed by a ping with id 2, both are
\* answered, in that order
C6_Witness ==
    /\ Len(readLog) = 2
    /\ readLog[1].method = "tools/call" /\ readLog[1].id = NumID(1)
    /\ readLog[1].params.name = ToolName("create")
    /\ readLog[2].method = "ping" /\ readLog[2].id = NumID(2)
    /\ Len(output) = 2
    /\ output[1].id = NumID(1) /\ output[2].id = NumID(2)
    /\ spc = "scan"

\* C7 as stated: a line that is not parseable JSON is answered with exactly
\* one error frame, code -32700, id null.
C7_GarbageAnswered ==
    [][(handlesLine /\ line.form = "garbage")
       => (writesOne /\ lastFrame.kind = "error" /\ lastFrame.code = -32700
           /\ lastFrame.id = NullID)]_vars

\* C8: a message that decodes, has no id (absent or null) and whose method
\* is not initialized is answered with one error frame, code -32600; no
\* handler runs.  The line null is such a message.
C8_MissingID ==
    [][(/\ handlesLine
        /\ line.form \in {"request", "null"}
        /\ line.id.k # "num"
        /\ line.method # "initialized")
       => (/\ writesOne
           /\ lastFrame.kind = "error"
           /\ lastFrame.code = -32600
           /\ lastFrame.message = <<"Invalid", "request">>
           /\ spc' = "scan"
           /\ UNCHANGED <<clientVars, initialized>>)]_vars

\* a tools/call without id, and a ping with a null id, were both refused
C8_Witness ==
    /\ Len(readLog) = 2
    /\ readLog[1].method = "tools/call" /\ readLog[1].id = AbsentID
    /\ readLog[2].method = "ping" /\ readLog[2].id = NullID
    /\ Len(output) = 2
    /\ output[1].code = -32600 /\ output[2].code = -32600

\* the property a tools/call lacks: a key property for get, update and
\* delete, a parameter that is not nullable for a function
lacks(l) ==
    IF l.form # "request" \/ l.method # "tools/call" \/ l.id.k # "num"
       \/ ~l.params.hasName
    THEN {}
    ELSE LET args == IF l.params.hasArgs THEN l.params.arguments ELSE EmptyMap
         IN IF l.params.name \in {ToolName("get"), ToolName("update"), ToolName("delete")}
            THEN {k \in {"OrderID", "Pos"} : k \notin DOMAIN args}
            ELSE IF l.params.name = FunctionTool
            THEN {"category"} \ DOMAIN args
            ELSE {}

\* C9 as stated: such a call sends no HTTP request, not even a token fetch,
\* and is answered with an error of code -32602 whose message names a
\* missing property.
C9_ValidationInvalidParams ==
    [][(handlesLine /\ lacks(line) # {})
       => (/\ wire' = <<>> /\ cpc' = "idle" /\ spc' = "scan"
           /\ writesOne
           /\ lastFrame.kind = "error"
           /\ \E k \in lacks(line) : Contains(lastFrame.message, <<":", k>>)
           /\ lastFrame.code = -32602)]_vars

----------------------------------------------------------------------------
(* Properties of the error classification *)

\* C10 as stated: an error that comes from HTTP 400, 404 or 422 is reported
\* as -32602, one from 401, 403, 409, 429 or a 5xx status as -32603, whatever
\* the text of the body.
C10_CodeByStatus ==
    cls.phase = "done"
    => /\ cls.status \in {400, 404, 422} => cls.code = -32602
       /\ cls.status \in {401, 403, 409, 429, 500, 502, 503} => cls.code = -32603

----------------------------------------------------------------------------
(* Properties of the tool table and of tool generation *)

\* C11 as stated: nothing but response and notification frames goes to
\* stdout, from the construction of the bridge on; verbose and diagnostic
\* text never does.
C11_StdoutOnlyFrames == stdout = <<>>

\* C14: after any sequence of AddTool and RemoveTool calls the order list
\* holds each registered name exactly once and nothing else, and the handler
\* map has the keys of the tool map.
C14_OrderIsPermutation ==
    /\ seqSet(sToolOrder) = DOMAIN sTools
    /\ Len(sToolOrder) = Cardinality(DOMAIN sTools)
    /\ DOMAIN sHandlers = DOMAIN sTools

\* a generated tool was removed and a new one registered
C14_Witness ==
    /\ Len(regCalls) = 2
    /\ regCalls[1] = [op |-> "RemoveTool", name |-> opToolName("get", "Items")]
    /\ regCalls[2] = [op |-> "AddTool", name |-> "custom_tool"]
    /\ bridge.metadata = Metadata
    /\ opToolName("get", "Items") \notin DOMAIN sTools
    /\ sToolOrder[Len(sToolOrder)] = "custom_tool"

\* the step is a call of AddTool
addsTool == Len(regCalls') = Len(regCalls) + 1 /\ regCalls'[Len(regCalls')].op = "AddTool"

addedName == regCalls'[Len(regCalls')].name

\* C15: AddTool of a registered name replaces definition and handler and
\* leaves the order list as it is; AddTool of a new name appends the name;
\* no other tool is touched.
C15_AddInPlace ==
    [][addsTool =>
        /\ sTools'[addedName] = CustomTool(addedName)
        /\ sHandlers'[addedName] = CustomHandler(addedName)
        /\ IF addedName \in DOMAIN sTools
           THEN sToolOrder' = sToolOrder
           ELSE sToolOrder' = Append(sToolOrder, addedName)
        /\ \A n \in DOMAIN sTools \ {addedName} :
              sTools'[n] = sTools[n] /\ sHandlers'[n] = sHandlers[n]]_vars

\* the generated get tool was registered again: it has the new definition
\* and still the fourth place of the list
C15_Witness ==
    /\ regCalls = <<[op |-> "AddTool", name |-> opToolName("get", "Items")]>>
    /\ bridge.metadata = Metadata
    /\ sTools[opToolName("get", "Items")] = CustomTool(opToolName("get", "Items"))
    /\ sToolOrder[4] = opToolName("get", "Items")
    /\ Len(sToolOrder) = 8

\* the tool names of the model in byte order, the order sort.Strings gives
AlphaOrder ==
    <<formatToolName("GetProducts", ""),
      opToolName("count", "Items"), opToolName("count", "Orders"),
      opToolName("create", "Items"), opToolName("create", "Orders"),
      "custom_tool",
      opToolName("delete", "Items"), opToolName("delete", "Orders"),
      opToolName("filter", "Items"), opToolName("filter", "Orders"),
      opToolName("get", "Items"), opToolName("get", "Orders"),
      formatToolName("odata_service_info", ""),
      opToolName("search", "Items"), opToolName("search", "Orders"),
      opToolName("update", "Items"), opToolName("update", "Orders")>>

\* the step takes the copy of the list for a tools/list request
copiesList == ~listed.pending /\ listed'.pending

\* the step writes the tools/list response
writesList == listed.pending /\ ~listed'.pending

\* C16 as stated: tools/list returns every tool registered when the request
\* reads the table exactly once, in insertion order, or sorted by name when
\* sort-tools is configured.
C16_ListSortedWhenConfigured ==
    [][/\ copiesList =>
            listed'.copy = IF bridge.SortTools
                           THEN SelectSeq(AlphaOrder, LAMBDA n : n \in DOMAIN sTools)
                           ELSE sToolOrder
       /\ writesList => (listed'.done /\ listed'.names = listed.copy)]_vars

\* C20: for every get, update and delete tool generated for an entity set,
\* every key property of the set's entity type is on the tool's required
\* list.
C20_KeysRequired ==
    bridge.phase = "ready" =>
        \A n \in DOMAIN sHandlers :
            sHandlers[n].h \in {"handleEntityGet", "handleEntityUpdate", "handleEntityDelete"}
            => LET set == bridge.metadata.EntitySets[sHandlers[n].entitySet]
                   et == bridge.metadata.EntityTypes[set.EntityType]
               IN \A i \in 1..Len(et.KeyProperties) :
                     et.KeyProperties[i] \in seqSet(sTools[n].required)

\* the tools of a set with a two-part key were generated, and the update
\* tool requires both parts
C20_Witness ==
    /\ bridge.phase = "ready"
    /\ bridge.metadata = TwoSets
    /\ opToolName("update", "Items") \in DOMAIN sTools
    /\ sHandlers[opToolName("update", "Items")].h = "handleEntityUpdate"
    /\ sTools[opToolName("update", "Items")].required = <<"OrderID", "Pos">>
    /\ sTools[opToolName("delete", "Orders")].required = <<"ID">>

----------------------------------------------------------------------------
(* Properties of the server loop *)

\* the tool for an operation on an entity set is in the table
hasTool(operation, h, setName) ==
    /\ opToolName(operation, setName) \in DOMAIN sTools
    /\ sHandlers[opToolName(operation, setName)].h = h
    /\ sHandlers[opToolName(operation, setName)].entitySet = setName

\* C21: once the bridge is built, an entity set has filter, count and get
\* tools exactly when it passes the entity filter and its entity type is
\* in the schema, and has search, create, update and delete tools exactly
\* when, besides, it is searchable, creatable, updatable and deletable; a
\* set whose entity type is missing has no tool.
C21_ToolsByCapability ==
    (bridge.phase = "ready" /\ regCalls = <<>>) =>
        \A setName \in DOMAIN bridge.metadata.EntitySets :
            LET set == bridge.metadata.EntitySets[setName]
                ok == /\ shouldInclude(setName, bridge.AllowedEntities)
                      /\ set.EntityType \in DOMAIN bridge.metadata.EntityTypes
            IN /\ hasTool("filter", "handleEntityFilter", setName) <=> ok
               /\ hasTool("count", "handleEntityCount", setName) <=> ok
               /\ hasTool("get", "handleEntityGet", setName) <=> ok
               /\ hasTool("search", "handleEntitySearch", setName) <=> (ok /\ set.Searchable)
               /\ hasTool("create", "handleEntityCreate", setName) <=> (ok /\ set.Creatable)
               /\ hasTool("update", "handleEntityUpdate", setName) <=> (ok /\ set.Updatable)
               /\ hasTool("delete", "handleEntityDelete", setName) <=> (ok /\ set.Deletable)
               /\ (set.EntityType \notin DOMAIN bridge.metadata.EntityTypes
                   => \A n \in DOMAIN sHandlers : sHandlers[n].entitySet # setName)

\* of two sets that pass a wildcard filter, the searchable one that cannot be
\* created has a search tool and no create tool, the other the reverse
C21_Witness ==
    /\ bridge.phase = "ready" /\ regCalls = <<>>
    /\ bridge.metadata = TwoSets
    /\ bridge.AllowedEntities = <<<<"N", "o", "n", "e">>, <<"*", "t", "e", "m", "s">>>>
    /\ hasTool("filter", "handleEntityFilter", "Items")
    /\ hasTool("create", "handleEntityCreate", "Items")
    /\ ~hasTool("search", "handleEntitySearch", "Items")
    /\ ~hasTool("filter", "handleEntityFilter", "Orders")

\* a set whose entity type is missing was skipped while its neighbour got
\* its tools
C21_WitnessMissingType ==
    /\ bridge.phase = "ready" /\ regCalls = <<>>
    /\ bridge.metadata = Dangling
    /\ bridge.AllowedEntities = <<>>
    /\ hasTool("get", "handleEntityGet", "Items")
    /\ ~hasTool("get", "handleEntityGet", "Ghosts")

\* C22: when the metadata document was fetched but could not be parsed and
\* the service root answered 200, the bridge is built and its tool table
\* holds the service-info tool and nothing else.
C22_FallbackOnlyServiceInfo ==
    [][(bridge.phase = "none" /\ bridge'.fallback = "served")
       => /\ bridge'.phase = "ready"
          /\ sToolOrder' = <<formatToolName("odata_service_info", "")>>
          /\ DOMAIN sTools' = {formatToolName("odata_service_info", "")}
          /\ DOMAIN sHandlers' = {formatToolName("odata_service_info", "")}]_vars

C22_Witness ==
    /\ bridge.phase = "ready"
    /\ bridge.fallback = "served"
    /\ bridge.AllowedEntities = <<>>
    /\ Len(sToolOrder) = 1
    /\ regCalls = <<>>

\* C23 as stated: the body of the request a create call sends carries the
\* numeric value of a decimal-looking field (Qty) as a JSON string, and the
\* string fields as given.
C23_DecimalAsString ==
    \A i \in 1..Len(wire) :
        (wire[i].kind = "orig" /\ wire[i].method = POST
         /\ Contains(wire[i].body, <<"\"Qty\"", ":">>))
        => wire[i].body = <<"{", "\"Name\"", ":", "\"x\"", ",",
                            "\"Qty\"", ":", "\"1\"", "}">>

\* C12 as stated: once Stop has cancelled the context nothing more is
\* written to stdout and no request is dispatched; a request in flight
\* produces no response.
C12_SilentAfterStop ==
    [][cancelled => (output' = output /\ dispatched' = dispatched)]_vars

nonEmptyLine(l) == l.form # "empty"

\* C13: Run returns nil only at the end of the input, with no handler
\* pending, and by then every non-empty line read was handed to
\* handleMessage exactly once, in order; no message makes the loop end.
C13_CleanEOF ==
    [][(spc' = "eof" /\ spc # "eof") =>
        /\ spc = "scan"
        /\ cpc = "idle"
        /\ UNCHANGED <<nLines, readLog, output, dispatched>>
        /\ dispatched = SelectSeq(readLog, nonEmptyLine)]_vars

\* the input ended after a garbage line and a failing tool call, both handled
C13_Witness ==
    /\ spc = "eof"
    /\ Len(readLog) = 2
    /\ readLog[1].form = "garbage"
    /\ readLog[2].method = "tools/call" /\ readLog[2].params.name = ToolName("delete")
    /\ dispatched = readLog
    /\ Len(output) = 1 /\ output[1].kind = "error"

\* C17: a tools/call naming a tool that is not in the table is answered
\* with error -32602; no handler runs and no HTTP request is sent.
C17_UnknownTool ==
    [][(/\ handlesLine
        /\ line.form = "request" /\ line.id.k = "num"
        /\ line.method = "tools/call"
        /\ line.params.hasName
        /\ line.params.name \notin DOMAIN sHandlers)
       => (/\ writesOne
           /\ lastFrame.kind = "error" /\ lastFrame.code = -32602
           /\ lastFrame.id = line.id
           /\ spc' = "scan"
           /\ UNCHANGED clientVars)]_vars

C17_Witness ==
    /\ Len(readLog) = 1
    /\ readLog[1].method = "tools/call"
    /\ readLog[1].params.name = "no_such_tool"
    /\ Len(output) = 1 /\ output[1].code = -32602
    /\ wire = <<>> /\ cpc = "idle"

\* C18: a request with an id whose method is not served is answered with
\* exactly one error, code -32601, carrying the id; no handler runs.
C18_UnknownMethod ==
    [][(/\ handlesLine
        /\ line.form = "request" /\ line.id.k = "num"
        /\ line.method \notin {"initialize", "initialized", "tools/list",
                                "tools/call", "ping"})
       => (/\ writesOne
           /\ lastFrame.kind = "error" /\ lastFrame.code = -32601
           /\ lastFrame.id = line.id
           /\ spc' = "scan"
           /\ UNCHANGED clientVars)]_vars

C18_Witness ==
    /\ Len(readLog) = 1
    /\ readLog[1].method = "resources/list" /\ readLog[1].id = NumID(2)
    /\ Len(output) = 1
    /\ output[1].code = -32601 /\ output[1].id = NumID(2)

\* C19: the initialized notification sets the initialized flag, writes
\* nothing and leaves the tool table as it is.
C19_Initialized ==
    [][(handlesLine /\ line.form = "request" /\ line.method = "initialized")
       => (/\ initialized'
           /\ output' = output
           /\ UNCHANGED <<sTools, sToolOrder, sHandlers>>
           /\ spc' = "scan"
           /\ UNCHANGED clientVars)]_vars

C19_Witness ==
    /\ Len(readLog) = 1
    /\ readLog[1].method = "initialized" /\ readLog[1].id = AbsentID
    /\ initialized
    /\ output = <<>>

----------------------------------------------------------------------------
(* Properties of response parsing and value conversion *)

parsedBody == calc.fn = "parseODataResponse" /\ calc.in.t = "object"

\* the payload of a wrapped body
payload == member(calc.in, "d")

\* C24 as stated: a v2 body {"d": {"results": [...], "__count": "N"}} is
\* normalized to a value with one element per element of results and, when
\* __count is a string of digits, a count of N; a payload without a results
\* array (no results member, or one that is no array) is taken whole as the
\* single-entity value, without a count.
C24_WrappedCollection ==
    (parsedBody /\ payload.t # "absent") =>
        /\ (/\ payload.t = "object"
            /\ member(payload, "results").t = "array"
            /\ member(payload, "__count").t \in {"absent", "string"})
           => /\ ~calc.out.err
              /\ calc.out.Value.t = "array"
              /\ Len(calc.out.Value.v) = Len(payload.v["results"].v)
              /\ calc.out.Value.v = payload.v["results"].v
              /\ \A n \in 0..MaxCount :
                    member(payload, "__count") = Str(ToString(n))
                    => calc.out.Count = Num(n)
              /\ member(payload, "__count").t = "absent" => calc.out.Count = Absent
        /\ (payload.t # "object" \/ member(payload, "results").t # "array")
           => /\ ~calc.out.err
              /\ calc.out.Value = payload
              /\ calc.out.Count = Absent

\* C25 as stated: a body without the "d" wrapper is parsed at the top level:
\* value, @odata.count, @odata.nextLink and @odata.context are copied, and
\* the whole object is the value when it has no value member.
C25_UnwrappedCopied ==
    (parsedBody /\ payload.t = "absent") =>
        /\ ~calc.out.err
        /\ calc.out.Value = (IF member(calc.in, "value").t = "absent"
                             THEN calc.in ELSE member(calc.in, "value"))
        /\ calc.out.Count = member(calc.in, "@odata.count")
        /\ calc.out.NextLink = member(calc.in, "@odata.nextLink")
        /\ calc.out.Context = member(calc.in, "@odata.context")

numericCall ==
    calc.fn \in {"ConvertNumericFieldsToStrings", "ConvertEntityDataForOData"}

\* C27 as stated: a field whose value is a string, a boolean or nil has the
\* same value after the conversion, whatever its name.
C27_NonNumericUnchanged ==
    numericCall =>
        \A key \in DOMAIN calc.in :
            calc.in[key].t \in {"string", "bool", "nil"} => calc.out[key] = calc.in[key]

\* a value and its conversion have the same shape: maps with the same keys,
\* arrays of the same length, at every depth
RECURSIVE sameShape(_, _)
sameShape(x, y) ==
    CASE x.t = "object" ->
            /\ y.t = "object"
            /\ DOMAIN y.v = DOMAIN x.v
            /\ \A k \in DOMAIN x.v : sameShape(x.v[k], y.v[k])
      [] x.t = "array" ->
            /\ y.t = "array"
            /\ Len(y.v) = Len(x.v)
            /\ \A i \in 1..Len(x.v) : sameShape(x.v[i], y.v[i])
      [] OTHER -> y.t \notin {"object", "array"}

\* no number is left as the value of a decimal-selected field, at any depth
RECURSIVE noDecimalNumber(_, _)
noDecimalNumber(x, decimalFields) ==
    CASE x.t = "object" ->
            \A k \in DOMAIN x.v :
                /\ (IsLikelyDecimalField(k) \/ inDecimalFieldSet(k, decimalFields))
                   => x.v[k].t # "number"
                /\ noDecimalNumber(x.v[k], decimalFields)
      [] x.t = "array" -> \A i \in 1..Len(x.v) : noDecimalNumber(x.v[i], decimalFields)
      [] OTHER -> TRUE

\* C28 as stated: the conversion keeps the shape of every nested map and
\* array, and converts the numeric values of decimal-selected fields inside
\* them, at every depth.
C28_RecursesEverywhere ==
    numericCall =>
        /\ sameShape(Obj(calc.in), Obj(calc.out))
        /\ noDecimalNumber(Obj(calc.out), calc.decimalFields)

\* C29: either conversion applied to its own result returns that result.
C29_Idempotent == numericCall => calc.again = calc.out

\* a map with a number in a decimal-looking field, a string in a declared
\* field and a nested line was converted, and converting it again changed
\* nothing
C29_Witness ==
    /\ calc.fn = "ConvertNumericFieldsToStrings"
    /\ calc.decimalFields = <<"Name">>
    /\ calc.in["Qty"] = Num(25)
    /\ calc.in["Name"] = Num(1)
    /\ calc.in["Info"] = Arr(<<OrderLine>>)
    /\ calc.out["Qty"] = Str("25")
    /\ calc.out["Name"] = Str("1")
    /\ calc.out # calc.in
    /\ calc.again = calc.out

\* C30 as stated: a legacy date converted to ISO-8601 and back is the date
\* it was, for every millisecond value.
C30_DateRoundTrip ==
    calc.fn = "convertODataLegacyToISO" => calc.again = calc.in

\* C26 as stated: the key predicate of an entity with a composite key lists
\* the keys in the order of the schema's key list (OrderID, then Pos), so
\* the same arguments always give the same request URL.
C26_KeyListOrder ==
    \A i \in 1..Len(wire) :
        (/\ wire[i].kind = "orig"
         /\ Len(wire[i].url) >= 10
         /\ SubSeq(wire[i].url, 1, 2) = <<"Items", "(">>)
        => SubSeq(wire[i].url, 3, 10)
           = <<"OrderID", "=", "7", ",", "Pos", "=", "2", ")">>

----------------------------------------------------------------------------
(* Properties of ids, cookies, methods and names *)

\* C31 as stated: every response written carries the id of the message it
\* answers (null when the message has none); no id is written that the peer
\* did not supply.
C31_IdEchoed ==
    [][output' # output
       => output'[Len(output')].id = decodedID(line)]_vars

\* C32 as stated: a modifying request that goes out with the token a fetch
\* delivered carries every cookie the response to that fetch set, on the
\* first send and on the send after a refetch.
C32_CookiesWithToken ==
    \A i \in 2..Len(wire) :
        (/\ wire[i].kind = "orig"
         /\ wire[i].method \in modifyingMethods
         /\ wire[i - 1].kind = "fetch"
         /\ wire[i].token # ""
         /\ wire[i].token = resps[i - 1].hdr)
        => \A j \in 1..Len(resps[i - 1].cookies) :
              \E k \in 1..Len(wire[i].cookies) :
                  wire[i].cookies[k] = resps[i - 1].cookies[j]

\* C33 as stated: the request an update tool call issues has the method PUT,
\* PATCH or MERGE, whatever the caller passes in _method.
C33_UpdateMethod ==
    op.name = "UpdateEntity" =>
        \A i \in 1..Len(wire) :
            wire[i].kind = "orig" => wire[i].method \in {PUT, PATCH, MERGE}

\* an operation that reads: an entity-set query, a single-entity get, a
\* function call with GET, the metadata fetch
readOperation ==
    \/ op.name \in {"GetEntitySet", "GetEntity", "GetMetadata", "getServiceDocument"}
    \/ op.name = "CallFunction" /\ op.method = GET

\* C34: a read operation issues no token fetch and sends no request twice,
\* also when the answer is 403 with a CSRF signal: its requests are GETs
\* without the Fetch header, none is a retry, and there is one of them, or
\* two for a metadata fetch that fell back to the service root.
C34_ReadsNeverFetch ==
    readOperation =>
        /\ cpc \notin {"prefetch", "refetch"}
        /\ ~isRetry
        /\ Len(wire) <= (IF op.name = "getServiceDocument" THEN 2 ELSE 1)
        /\ \A i \in 1..Len(wire) :
              /\ wire[i].kind = (IF i = 1 THEN "orig" ELSE "root")
              /\ wire[i].method = GET
              /\ wire[i].token # CSRFTokenFetch
        /\ \A i, j \in 1..Len(wire) : wire[i].url = wire[j].url => i = j

\* the metadata fetch was answered with 403 and X-CSRF-Token: Required and
\* a body naming the CSRF failure, and returned that error after one request
C34_Witness ==
    /\ op.name = "GetMetadata"
    /\ cpc = "done"
    /\ result.state = "err"
    /\ Len(wire) = 1
    /\ Len(resps) = 1
    /\ resps[1].status = 403
    /\ resps[1].hdr = "Required"
    /\ resps[1].body.text = <<"CSRF", "token", "validation", "failed">>

\* the registrations generateTools makes for the bridge's schema and filter
\* (their number and names do not depend on the order the maps are ranged in)
generated ==
    generateToolsFor(bridge.metadata,
                     CHOOSE p \in Perms(DOMAIN bridge.metadata.EntitySets) : TRUE,
                     CHOOSE p \in Perms(DOMAIN bridge.metadata.FunctionImports) : TRUE,
                     bridge.AllowedEntities)

\* C35 as stated: the tools generated have names that differ from each
\* other, so the tool table and the list hold as many tools as were
\* generated.
C35_NamesDistinct ==
    (bridge.phase = "ready" /\ regCalls = <<>>) =>
        /\ \A i, j \in 1..Len(generated) :
              generated[i].tool.Name = generated[j].tool.Name => i = j
        /\ Cardinality(DOMAIN sTools) = Len(generated)
        /\ Len(handleToolsList(Registry(sTools, sToolOrder, sHandlers))) = Len(generated)

\* C36 as stated: whatever Run and Stop calls are made on a bridge, the
\* stop channel is closed at most once (Stop does not panic) and at most one
\* server loop is in progress.
C36_OneCloseOneLoop == ~life.panicked /\ life.loops <= 1

\* C37 as stated: a whole number given as a key value is written in the key
\* predicate as its decimal digits, whatever its magnitude (5 gives
\* Products(5)).
C37_KeyDigits ==
    calc.fn = "buildKeyPredicate"
    => calc.out = <<"Products", "(", ToString(calc.in), ")">>

====
